---- MODULE Spec2Model ----
(***************************************************************************)
(* Model of the retrieval-augmented question-answering service:            *)
(*   main.py            the /ask and /generate-embeddings handlers         *)
(*   openai_service.py  OpenAIService.answer_question and its TTL cache    *)
(*   vector_store.py    VectorStore.add_documents / similarity_search      *)
(*                                                                         *)
(* Strings (questions, document texts, the strings of a completion) are    *)
(* sequences of Unicode code points.  Time is the cache's monotonic clock  *)
(* in whole seconds.  A confidence is kept in hundredths (95 is 0.95), so  *)
(* the interval [0,1] is 0..100.                                           *)
(***************************************************************************)
EXTENDS Integers, Sequences, FiniteSets, TLC

VARIABLES now, question_cache, points, calls, ticks, last, lastAdd, memo,
          collection_exists, creations, initializer, requests

vars ==
  <<now, question_cache, points, calls, ticks, last, lastAdd, memo,
    collection_exists, creations, initializer, requests>>

(***************************************************************************)
(* Program constants and the bounds of the model.                          *)
(***************************************************************************)
maxsize == 1024
ttl == 3600
k == 5

MaxCalls == 3
MaxTicks == 2
MaxInitializers == 3
MaxRequests == 2

\* Seconds an outbound call (embedding and search, completion) takes.
CallTimes == {1}
\* Seconds between the cache's membership test and the read that follows.
GapTimes == {0, 1}
\* Idle time between two requests.
IdleTimes == {ttl - 1}

(***************************************************************************)
(* Text.                                                                   *)
(***************************************************************************)
\* "Q", "q", "R"
Questions == {<<81>>, <<113>>, <<82>>}

(***************************************************************************)
(* str.lower(), by the Unicode 14.0 tables of the interpreter.              *)
(***************************************************************************)
\* The code points above ASCII that lower-case to one other code point:
\* <<first, last, step, offset>> is every step-th code point from first to
\* last, each with lower-case form itself + offset.
LowerRanges ==
  { <<192, 214, 1, 32>>, <<216, 222, 1, 32>>, <<256, 302, 2, 1>>,
    <<306, 310, 2, 1>>, <<313, 327, 2, 1>>, <<330, 374, 2, 1>>,
    <<376, 376, 1, -121>>, <<377, 381, 2, 1>>, <<385, 385, 1, 210>>,
    <<386, 388, 2, 1>>, <<390, 390, 1, 206>>, <<391, 391, 1, 1>>,
    <<393, 394, 1, 205>>, <<395, 395, 1, 1>>, <<398, 398, 1, 79>>,
    <<399, 399, 1, 202>>, <<400, 400, 1, 203>>, <<401, 401, 1, 1>>,
    <<403, 403, 1, 205>>, <<404, 404, 1, 207>>, <<406, 406, 1, 211>>,
    <<407, 407, 1, 209>>, <<408, 408, 1, 1>>, <<412, 412, 1, 211>>,
    <<413, 413, 1, 213>>, <<415, 415, 1, 214>>, <<416, 420, 2, 1>>,
    <<422, 422, 1, 218>>, <<423, 423, 1, 1>>, <<425, 425, 1, 218>>,
    <<428, 428, 1, 1>>, <<430, 430, 1, 218>>, <<431, 431, 1, 1>>,
    <<433, 434, 1, 217>>, <<435, 437, 2, 1>>, <<439, 439, 1, 219>>,
    <<440, 440, 1, 1>>, <<444, 444, 1, 1>>, <<452, 452, 1, 2>>,
    <<453, 453, 1, 1>>, <<455, 455, 1, 2>>, <<456, 456, 1, 1>>,
    <<458, 458, 1, 2>>, <<459, 475, 2, 1>>, <<478, 494, 2, 1>>,
    <<497, 497, 1, 2>>, <<498, 500, 2, 1>>, <<502, 502, 1, -97>>,
    <<503, 503, 1, -56>>, <<504, 542, 2, 1>>, <<544, 544, 1, -130>>,
    <<546, 562, 2, 1>>, <<570, 570, 1, 10795>>, <<571, 571, 1, 1>>,
    <<573, 573, 1, -163>>, <<574, 574, 1, 10792>>, <<577, 577, 1, 1>>,
    <<579, 579, 1, -195>>, <<580, 580, 1, 69>>, <<581, 581, 1, 71>>,
    <<582, 590, 2, 1>>, <<880, 882, 2, 1>>, <<886, 886, 1, 1>>,
    <<895, 895, 1, 116>>, <<902, 902, 1, 38>>, <<904, 906, 1, 37>>,
    <<908, 908, 1, 64>>, <<910, 911, 1, 63>>, <<913, 929, 1, 32>>,
    <<931, 939, 1, 32>>, <<975, 975, 1, 8>>, <<984, 1006, 2, 1>>,
    <<1012, 1012, 1, -60>>, <<1015, 1015, 1, 1>>, <<1017, 1017, 1, -7>>,
    <<1018, 1018, 1, 1>>, <<1021, 1023, 1, -130>>, <<1024, 1039, 1, 80>>,
    <<1040, 1071, 1, 32>>, <<1120, 1152, 2, 1>>, <<1162, 1214, 2, 1>>,
    <<1216, 1216, 1, 15>>, <<1217, 1229, 2, 1>>, <<1232, 1326, 2, 1>>,
    <<1329, 1366, 1, 48>>, <<4256, 4293, 1, 7264>>, <<4295, 4295, 1, 7264>>,
    <<4301, 4301, 1, 7264>>, <<5024, 5103, 1, 38864>>, <<5104, 5109, 1, 8>>,
    <<7312, 7354, 1, -3008>>, <<7357, 7359, 1, -3008>>, <<7680, 7828, 2, 1>>,
    <<7838, 7838, 1, -7615>>, <<7840, 7934, 2, 1>>, <<7944, 7951, 1, -8>>,
    <<7960, 7965, 1, -8>>, <<7976, 7983, 1, -8>>, <<7992, 7999, 1, -8>>,
    <<8008, 8013, 1, -8>>, <<8025, 8031, 2, -8>>, <<8040, 8047, 1, -8>>,
    <<8072, 8079, 1, -8>>, <<8088, 8095, 1, -8>>, <<8104, 8111, 1, -8>>,
    <<8120, 8121, 1, -8>>, <<8122, 8123, 1, -74>>, <<8124, 8124, 1, -9>>,
    <<8136, 8139, 1, -86>>, <<8140, 8140, 1, -9>>, <<8152, 8153, 1, -8>>,
    <<8154, 8155, 1, -100>>, <<8168, 8169, 1, -8>>, <<8170, 8171, 1, -112>>,
    <<8172, 8172, 1, -7>>, <<8184, 8185, 1, -128>>, <<8186, 8187, 1, -126>>,
    <<8188, 8188, 1, -9>>, <<8486, 8486, 1, -7517>>, <<8490, 8490, 1, -8383>>,
    <<8491, 8491, 1, -8262>>, <<8498, 8498, 1, 28>>, <<8544, 8559, 1, 16>>,
    <<8579, 8579, 1, 1>>, <<9398, 9423, 1, 26>>, <<11264, 11311, 1, 48>>,
    <<11360, 11360, 1, 1>>, <<11362, 11362, 1, -10743>>, <<11363, 11363, 1, -3814>>,
    <<11364, 11364, 1, -10727>>, <<11367, 11371, 2, 1>>, <<11373, 11373, 1, -10780>>,
    <<11374, 11374, 1, -10749>>, <<11375, 11375, 1, -10783>>, <<11376, 11376, 1, -10782>>,
    <<11378, 11378, 1, 1>>, <<11381, 11381, 1, 1>>, <<11390, 11391, 1, -10815>>,
    <<11392, 11490, 2, 1>>, <<11499, 11501, 2, 1>>, <<11506, 11506, 1, 1>>,
    <<42560, 42604, 2, 1>>, <<42624, 42650, 2, 1>>, <<42786, 42798, 2, 1>>,
    <<42802, 42862, 2, 1>>, <<42873, 42875, 2, 1>>, <<42877, 42877, 1, -35332>>,
    <<42878, 42886, 2, 1>>, <<42891, 42891, 1, 1>>, <<42893, 42893, 1, -42280>>,
    <<42896, 42898, 2, 1>>, <<42902, 42920, 2, 1>>, <<42922, 42922, 1, -42308>>,
    <<42923, 42923, 1, -42319>>, <<42924, 42924, 1, -42315>>, <<42925, 42925, 1, -42305>>,
    <<42926, 42926, 1, -42308>>, <<42928, 42928, 1, -42258>>, <<42929, 42929, 1, -42282>>,
    <<42930, 42930, 1, -42261>>, <<42931, 42931, 1, 928>>, <<42932, 42946, 2, 1>>,
    <<42948, 42948, 1, -48>>, <<42949, 42949, 1, -42307>>, <<42950, 42950, 1, -35384>>,
    <<42951, 42953, 2, 1>>, <<42960, 42960, 1, 1>>, <<42966, 42968, 2, 1>>,
    <<42997, 42997, 1, 1>>, <<65313, 65338, 1, 32>>, <<66560, 66599, 1, 40>>,
    <<66736, 66771, 1, 40>>, <<66928, 66938, 1, 39>>, <<66940, 66954, 1, 39>>,
    <<66956, 66962, 1, 39>>, <<66964, 66965, 1, 39>>, <<68736, 68786, 1, 64>>,
    <<71840, 71871, 1, 32>>, <<93760, 93791, 1, 32>>, <<125184, 125217, 1, 34>> }

\* The cased code points (Lowercase, Uppercase or titlecase), <<first, last>>.
CasedRanges ==
  { <<65, 90>>, <<97, 122>>, <<170, 170>>, <<181, 181>>,
    <<186, 186>>, <<192, 214>>, <<216, 246>>, <<248, 442>>,
    <<444, 447>>, <<452, 659>>, <<661, 696>>, <<704, 705>>,
    <<736, 740>>, <<837, 837>>, <<880, 883>>, <<886, 887>>,
    <<890, 893>>, <<895, 895>>, <<902, 902>>, <<904, 906>>,
    <<908, 908>>, <<910, 929>>, <<931, 1013>>, <<1015, 1153>>,
    <<1162, 1327>>, <<1329, 1366>>, <<1376, 1416>>, <<4256, 4293>>,
    <<4295, 4295>>, <<4301, 4301>>, <<4304, 4346>>, <<4349, 4351>>,
    <<5024, 5109>>, <<5112, 5117>>, <<7296, 7304>>, <<7312, 7354>>,
    <<7357, 7359>>, <<7424, 7615>>, <<7680, 7957>>, <<7960, 7965>>,
    <<7968, 8005>>, <<8008, 8013>>, <<8016, 8023>>, <<8025, 8025>>,
    <<8027, 8027>>, <<8029, 8029>>, <<8031, 8061>>, <<8064, 8116>>,
    <<8118, 8124>>, <<8126, 8126>>, <<8130, 8132>>, <<8134, 8140>>,
    <<8144, 8147>>, <<8150, 8155>>, <<8160, 8172>>, <<8178, 8180>>,
    <<8182, 8188>>, <<8305, 8305>>, <<8319, 8319>>, <<8336, 8348>>,
    <<8450, 8450>>, <<8455, 8455>>, <<8458, 8467>>, <<8469, 8469>>,
    <<8473, 8477>>, <<8484, 8484>>, <<8486, 8486>>, <<8488, 8488>>,
    <<8490, 8493>>, <<8495, 8500>>, <<8505, 8505>>, <<8508, 8511>>,
    <<8517, 8521>>, <<8526, 8526>>, <<8544, 8575>>, <<8579, 8580>>,
    <<9398, 9449>>, <<11264, 11492>>, <<11499, 11502>>, <<11506, 11507>>,
    <<11520, 11557>>, <<11559, 11559>>, <<11565, 11565>>, <<42560, 42605>>,
    <<42624, 42653>>, <<42786, 42887>>, <<42891, 42894>>, <<42896, 42954>>,
    <<42960, 42961>>, <<42963, 42963>>, <<42965, 42969>>, <<42997, 42998>>,
    <<43000, 43002>>, <<43824, 43866>>, <<43868, 43880>>, <<43888, 43967>>,
    <<64256, 64262>>, <<64275, 64279>>, <<65313, 65338>>, <<65345, 65370>>,
    <<66560, 66639>>, <<66736, 66771>>, <<66776, 66811>>, <<66928, 66938>>,
    <<66940, 66954>>, <<66956, 66962>>, <<66964, 66965>>, <<66967, 66977>>,
    <<66979, 66993>>, <<66995, 67001>>, <<67003, 67004>>, <<67456, 67456>>,
    <<67459, 67461>>, <<67463, 67504>>, <<67506, 67514>>, <<68736, 68786>>,
    <<68800, 68850>>, <<71840, 71903>>, <<93760, 93823>>, <<119808, 119892>>,
    <<119894, 119964>>, <<119966, 119967>>, <<119970, 119970>>, <<119973, 119974>>,
    <<119977, 119980>>, <<119982, 119993>>, <<119995, 119995>>, <<119997, 120003>>,
    <<120005, 120069>>, <<120071, 120074>>, <<120077, 120084>>, <<120086, 120092>>,
    <<120094, 120121>>, <<120123, 120126>>, <<120128, 120132>>, <<120134, 120134>>,
    <<120138, 120144>>, <<120146, 120485>>, <<120488, 120512>>, <<120514, 120538>>,
    <<120540, 120570>>, <<120572, 120596>>, <<120598, 120628>>, <<120630, 120654>>,
    <<120656, 120686>>, <<120688, 120712>>, <<120714, 120744>>, <<120746, 120770>>,
    <<120772, 120779>>, <<122624, 122633>>, <<122635, 122654>>, <<125184, 125251>>,
    <<127280, 127305>>, <<127312, 127337>>, <<127344, 127369>> }

\* The case-ignorable code points, <<first, last>>.
CaseIgnorableRanges ==
  { <<39, 39>>, <<46, 46>>, <<58, 58>>, <<94, 94>>,
    <<96, 96>>, <<168, 168>>, <<173, 173>>, <<175, 175>>,
    <<180, 180>>, <<183, 184>>, <<688, 879>>, <<884, 885>>,
    <<890, 890>>, <<900, 901>>, <<903, 903>>, <<1155, 1161>>,
    <<1369, 1369>>, <<1375, 1375>>, <<1425, 1469>>, <<1471, 1471>>,
    <<1473, 1474>>, <<1476, 1477>>, <<1479, 1479>>, <<1524, 1524>>,
    <<1536, 1541>>, <<1552, 1562>>, <<1564, 1564>>, <<1600, 1600>>,
    <<1611, 1631>>, <<1648, 1648>>, <<1750, 1757>>, <<1759, 1768>>,
    <<1770, 1773>>, <<1807, 1807>>, <<1809, 1809>>, <<1840, 1866>>,
    <<1958, 1968>>, <<2027, 2037>>, <<2042, 2042>>, <<2045, 2045>>,
    <<2070, 2093>>, <<2137, 2139>>, <<2184, 2184>>, <<2192, 2193>>,
    <<2200, 2207>>, <<2249, 2306>>, <<2362, 2362>>, <<2364, 2364>>,
    <<2369, 2376>>, <<2381, 2381>>, <<2385, 2391>>, <<2402, 2403>>,
    <<2417, 2417>>, <<2433, 2433>>, <<2492, 2492>>, <<2497, 2500>>,
    <<2509, 2509>>, <<2530, 2531>>, <<2558, 2558>>, <<2561, 2562>>,
    <<2620, 2620>>, <<2625, 2626>>, <<2631, 2632>>, <<2635, 2637>>,
    <<2641, 2641>>, <<2672, 2673>>, <<2677, 2677>>, <<2689, 2690>>,
    <<2748, 2748>>, <<2753, 2757>>, <<2759, 2760>>, <<2765, 2765>>,
    <<2786, 2787>>, <<2810, 2815>>, <<2817, 2817>>, <<2876, 2876>>,
    <<2879, 2879>>, <<2881, 2884>>, <<2893, 2893>>, <<2901, 2902>>,
    <<2914, 2915>>, <<2946, 2946>>, <<3008, 3008>>, <<3021, 3021>>,
    <<3072, 3072>>, <<3076, 3076>>, <<3132, 3132>>, <<3134, 3136>>,
    <<3142, 3144>>, <<3146, 3149>>, <<3157, 3158>>, <<3170, 3171>>,
    <<3201, 3201>>, <<3260, 3260>>, <<3263, 3263>>, <<3270, 3270>>,
    <<3276, 3277>>, <<3298, 3299>>, <<3328, 3329>>, <<3387, 3388>>,
    <<3393, 3396>>, <<3405, 3405>>, <<3426, 3427>>, <<3457, 3457>>,
    <<3530, 3530>>, <<3538, 3540>>, <<3542, 3542>>, <<3633, 3633>>,
    <<3636, 3642>>, <<3654, 3662>>, <<3761, 3761>>, <<3764, 3772>>,
    <<3782, 3782>>, <<3784, 3789>>, <<3864, 3865>>, <<3893, 3893>>,
    <<3895, 3895>>, <<3897, 3897>>, <<3953, 3966>>, <<3968, 3972>>,
    <<3974, 3975>>, <<3981, 3991>>, <<3993, 4028>>, <<4038, 4038>>,
    <<4141, 4144>>, <<4146, 4151>>, <<4153, 4154>>, <<4157, 4158>>,
    <<4184, 4185>>, <<4190, 4192>>, <<4209, 4212>>, <<4226, 4226>>,
    <<4229, 4230>>, <<4237, 4237>>, <<4253, 4253>>, <<4348, 4348>>,
    <<4957, 4959>>, <<5906, 5908>>, <<5938, 5939>>, <<5970, 5971>>,
    <<6002, 6003>>, <<6068, 6069>>, <<6071, 6077>>, <<6086, 6086>>,
    <<6089, 6099>>, <<6103, 6103>>, <<6109, 6109>>, <<6155, 6159>>,
    <<6211, 6211>>, <<6277, 6278>>, <<6313, 6313>>, <<6432, 6434>>,
    <<6439, 6440>>, <<6450, 6450>>, <<6457, 6459>>, <<6679, 6680>>,
    <<6683, 6683>>, <<6742, 6742>>, <<6744, 6750>>, <<6752, 6752>>,
    <<6754, 6754>>, <<6757, 6764>>, <<6771, 6780>>, <<6783, 6783>>,
    <<6823, 6823>>, <<6832, 6862>>, <<6912, 6915>>, <<6964, 6964>>,
    <<6966, 6970>>, <<6972, 6972>>, <<6978, 6978>>, <<7019, 7027>>,
    <<7040, 7041>>, <<7074, 7077>>, <<7080, 7081>>, <<7083, 7085>>,
    <<7142, 7142>>, <<7144, 7145>>, <<7149, 7149>>, <<7151, 7153>>,
    <<7212, 7219>>, <<7222, 7223>>, <<7288, 7293>>, <<7376, 7378>>,
    <<7380, 7392>>, <<7394, 7400>>, <<7405, 7405>>, <<7412, 7412>>,
    <<7416, 7417>>, <<7468, 7530>>, <<7544, 7544>>, <<7579, 7679>>,
    <<8125, 8125>>, <<8127, 8129>>, <<8141, 8143>>, <<8157, 8159>>,
    <<8173, 8175>>, <<8189, 8190>>, <<8203, 8207>>, <<8216, 8217>>,
    <<8228, 8228>>, <<8231, 8231>>, <<8234, 8238>>, <<8288, 8292>>,
    <<8294, 8303>>, <<8305, 8305>>, <<8319, 8319>>, <<8336, 8348>>,
    <<8400, 8432>>, <<11388, 11389>>, <<11503, 11505>>, <<11631, 11631>>,
    <<11647, 11647>>, <<11744, 11775>>, <<11823, 11823>>, <<12293, 12293>>,
    <<12330, 12333>>, <<12337, 12341>>, <<12347, 12347>>, <<12441, 12446>>,
    <<12540, 12542>>, <<40981, 40981>>, <<42232, 42237>>, <<42508, 42508>>,
    <<42607, 42610>>, <<42612, 42621>>, <<42623, 42623>>, <<42652, 42655>>,
    <<42736, 42737>>, <<42752, 42785>>, <<42864, 42864>>, <<42888, 42890>>,
    <<42994, 42996>>, <<43000, 43001>>, <<43010, 43010>>, <<43014, 43014>>,
    <<43019, 43019>>, <<43045, 43046>>, <<43052, 43052>>, <<43204, 43205>>,
    <<43232, 43249>>, <<43263, 43263>>, <<43302, 43309>>, <<43335, 43345>>,
    <<43392, 43394>>, <<43443, 43443>>, <<43446, 43449>>, <<43452, 43453>>,
    <<43471, 43471>>, <<43493, 43494>>, <<43561, 43566>>, <<43569, 43570>>,
    <<43573, 43574>>, <<43587, 43587>>, <<43596, 43596>>, <<43632, 43632>>,
    <<43644, 43644>>, <<43696, 43696>>, <<43698, 43700>>, <<43703, 43704>>,
    <<43710, 43711>>, <<43713, 43713>>, <<43741, 43741>>, <<43756, 43757>>,
    <<43763, 43764>>, <<43766, 43766>>, <<43867, 43871>>, <<43881, 43883>>,
    <<44005, 44005>>, <<44008, 44008>>, <<44013, 44013>>, <<64286, 64286>>,
    <<64434, 64450>>, <<65024, 65039>>, <<65043, 65043>>, <<65056, 65071>>,
    <<65106, 65106>>, <<65109, 65109>>, <<65279, 65279>>, <<65287, 65287>>,
    <<65294, 65294>>, <<65306, 65306>>, <<65342, 65342>>, <<65344, 65344>>,
    <<65392, 65392>>, <<65438, 65439>>, <<65507, 65507>>, <<65529, 65531>>,
    <<66045, 66045>>, <<66272, 66272>>, <<66422, 66426>>, <<67456, 67461>>,
    <<67463, 67504>>, <<67506, 67514>>, <<68097, 68099>>, <<68101, 68102>>,
    <<68108, 68111>>, <<68152, 68154>>, <<68159, 68159>>, <<68325, 68326>>,
    <<68900, 68903>>, <<69291, 69292>>, <<69446, 69456>>, <<69506, 69509>>,
    <<69633, 69633>>, <<69688, 69702>>, <<69744, 69744>>, <<69747, 69748>>,
    <<69759, 69761>>, <<69811, 69814>>, <<69817, 69818>>, <<69821, 69821>>,
    <<69826, 69826>>, <<69837, 69837>>, <<69888, 69890>>, <<69927, 69931>>,
    <<69933, 69940>>, <<70003, 70003>>, <<70016, 70017>>, <<70070, 70078>>,
    <<70089, 70092>>, <<70095, 70095>>, <<70191, 70193>>, <<70196, 70196>>,
    <<70198, 70199>>, <<70206, 70206>>, <<70367, 70367>>, <<70371, 70378>>,
    <<70400, 70401>>, <<70459, 70460>>, <<70464, 70464>>, <<70502, 70508>>,
    <<70512, 70516>>, <<70712, 70719>>, <<70722, 70724>>, <<70726, 70726>>,
    <<70750, 70750>>, <<70835, 70840>>, <<70842, 70842>>, <<70847, 70848>>,
    <<70850, 70851>>, <<71090, 71093>>, <<71100, 71101>>, <<71103, 71104>>,
    <<71132, 71133>>, <<71219, 71226>>, <<71229, 71229>>, <<71231, 71232>>,
    <<71339, 71339>>, <<71341, 71341>>, <<71344, 71349>>, <<71351, 71351>>,
    <<71453, 71455>>, <<71458, 71461>>, <<71463, 71467>>, <<71727, 71735>>,
    <<71737, 71738>>, <<71995, 71996>>, <<71998, 71998>>, <<72003, 72003>>,
    <<72148, 72151>>, <<72154, 72155>>, <<72160, 72160>>, <<72193, 72202>>,
    <<72243, 72248>>, <<72251, 72254>>, <<72263, 72263>>, <<72273, 72278>>,
    <<72281, 72283>>, <<72330, 72342>>, <<72344, 72345>>, <<72752, 72758>>,
    <<72760, 72765>>, <<72767, 72767>>, <<72850, 72871>>, <<72874, 72880>>,
    <<72882, 72883>>, <<72885, 72886>>, <<73009, 73014>>, <<73018, 73018>>,
    <<73020, 73021>>, <<73023, 73029>>, <<73031, 73031>>, <<73104, 73105>>,
    <<73109, 73109>>, <<73111, 73111>>, <<73459, 73460>>, <<78896, 78904>>,
    <<92912, 92916>>, <<92976, 92982>>, <<92992, 92995>>, <<94031, 94031>>,
    <<94095, 94111>>, <<94176, 94177>>, <<94179, 94180>>, <<110576, 110579>>,
    <<110581, 110587>>, <<110589, 110590>>, <<113821, 113822>>, <<113824, 113827>>,
    <<118528, 118573>>, <<118576, 118598>>, <<119143, 119145>>, <<119155, 119170>>,
    <<119173, 119179>>, <<119210, 119213>>, <<119362, 119364>>, <<121344, 121398>>,
    <<121403, 121452>>, <<121461, 121461>>, <<121476, 121476>>, <<121499, 121503>>,
    <<121505, 121519>>, <<122880, 122886>>, <<122888, 122904>>, <<122907, 122913>>,
    <<122915, 122916>>, <<122918, 122922>>, <<123184, 123197>>, <<123566, 123566>>,
    <<123628, 123631>>, <<125136, 125142>>, <<125252, 125259>>, <<127995, 127999>>,
    <<917505, 917505>>, <<917536, 917631>>, <<917760, 917999>> }

\* The tables are read through functions, so that a code point is worked
\* out once and then looked up.
IsCased[c \in Int] == \E r \in CasedRanges : r[1] <= c /\ c <= r[2]

IsCaseIgnorable[c \in Int] ==
  \E r \in CaseIgnorableRanges : r[1] <= c /\ c <= r[2]

InLowerRange(c, r) == r[1] <= c /\ c <= r[2] /\ (c - r[1]) % r[3] = 0

LowerOf[c \in Int] ==
  IF c >= 65 /\ c <= 90 THEN <<c + 32>>
  ELSE IF c < 128 THEN <<c>>
  ELSE IF c = 304 THEN <<105, 775>>
  ELSE IF \E r \in LowerRanges : InLowerRange(c, r)
  THEN <<c + (CHOOSE r \in LowerRanges : InLowerRange(c, r))[4]>>
  ELSE <<c>>

\* chr(c).lower(), as code points: one code point, but for U+0130, capital
\* I with dot above, which gives i and a combining dot above.
LowerChar(c) == LowerOf[c]

\* The code point of s nearest to s[i] among those at the positions js that
\* is not case-ignorable exists and is cased.
CasedNextTo(s, i, js) ==
  \E j \in js :
    /\ ~IsCaseIgnorable[s[j]]
    /\ IsCased[s[j]]
    /\ \A x \in js :
         (IF j < i THEN x > j ELSE x < j) => IsCaseIgnorable[s[x]]

\* The lower-case form of the capital sigma at s[i]: the final sigma when
\* the nearest code point before it that is not case-ignorable is cased and
\* the nearest such code point after it, if there is one, is not.
CapitalSigma[s \in Seq(Int), i \in Nat] ==
  IF /\ CasedNextTo(s, i, 1..(i - 1))
     /\ ~CasedNextTo(s, i, (i + 1)..Len(s))
  THEN 962
  ELSE 963

LowerFrom[s \in Seq(Int), i \in Nat] ==
  IF i > Len(s) THEN <<>>
  ELSE (IF s[i] = 931 THEN <<CapitalSigma[s, i]>> ELSE LowerOf[s[i]])
         \o LowerFrom[s, i + 1]

\* s.lower()
lower(s) == LowerFrom[s, 1]

Keys == {lower(q) : q \in Questions}

\* The code points str.isspace() holds of.
Whitespace ==
  {9, 10, 11, 12, 13, 28, 29, 30, 31, 32, 133, 160, 5760}
    \cup 8192..8202 \cup {8232, 8233, 8239, 8287, 12288}

RECURSIVE lstrip(_)
lstrip(s) == IF s # <<>> /\ Head(s) \in Whitespace THEN lstrip(Tail(s)) ELSE s

RECURSIVE rstrip(_)
rstrip(s) ==
  IF s # <<>> /\ s[Len(s)] \in Whitespace
  THEN rstrip(SubSeq(s, 1, Len(s) - 1))
  ELSE s

\* str.strip()
strip(s) == rstrip(lstrip(s))

(***************************************************************************)
(* Results and language-model payloads.                                    *)
(***************************************************************************)
\* "I don't have enough information to answer this question."
SentinelAnswer ==
  <<73, 32, 100, 111, 110, 39, 116, 32, 104, 97, 118, 101, 32, 101, 110,
    111, 117, 103, 104, 32, 105, 110, 102, 111, 114, 109, 97, 116, 105,
    111, 110, 32, 116, 111, 32, 97, 110, 115, 119, 101, 114, 32, 116, 104,
    105, 115, 32, 113, 117, 101, 115, 116, 105, 111, 110, 46>>

Sentinel == [answer |-> SentinelAnswer, confidence |-> 0]

NoResult == [answer |-> <<>>, confidence |-> -1]

\* A JSON value: a string, given as its code points, a number, given in
\* hundredths, or a boolean; or no value.
Str(s) == [t |-> "str", s |-> s, n |-> 0, b |-> FALSE]
Num(n) == [t |-> "num", s |-> <<>>, n |-> n, b |-> FALSE]
Bool(b) == [t |-> "bool", s |-> <<>>, n |-> 0, b |-> b]
Absent == [t |-> "absent", s |-> <<>>, n |-> 0, b |-> FALSE]

\* "26 May 1918"
AnAnswer == <<50, 54, 32, 77, 97, 121, 32, 49, 57, 49, 56>>

\* The text the language model sends back: not JSON at all, or a JSON object
\* of which the two fields the schema reads are kept.
NonJson == [json |-> FALSE, answer |-> Absent, confidence |-> Absent]
Object(a, c) == [json |-> TRUE, answer |-> a, confidence |-> c]

\* The last two give the confidence as the strings "high" and "0.95".
Payloads ==
  { NonJson,
    Object(Str(AnAnswer), Num(95)),
    Object(Str(SentinelAnswer), Num(0)),
    Object(Str(AnAnswer), Num(150)),
    Object(Absent, Num(95)),
    Object(Str(AnAnswer), Absent),
    Object(Str(AnAnswer), Str(<<104, 105, 103, 104>>)),
    Object(Str(AnAnswer), Str(<<48, 46, 57, 53>>)) }

\* openai.ChatCompletion.create raises, or returns a payload.
LlmOutcomes ==
  {[raised |-> TRUE, payload |-> NonJson]}
    \cup {[raised |-> FALSE, payload |-> p] : p \in Payloads}

(***************************************************************************)
(* TTLCache(maxsize=1024, ttl=3600).  The cache is the sequence of its     *)
(* entries in the order of its key table, least recently used first; an    *)
(* entry is [key, value, expires].  The ttl is one constant and the clock  *)
(* never runs back, so the entries whose expiry has passed are exactly the *)
(* ones the expiry list's walk removes.                                    *)
(***************************************************************************)
CacheKeys(c) == {c[i].key : i \in 1..Len(c)}

CacheEntries(c) == {c[i] : i \in 1..Len(c)}

CacheHas(c, key) == \E i \in 1..Len(c) : c[i].key = key

EntryOf(c, key) == c[CHOOSE i \in 1..Len(c) : c[i].key = key]

\* The keys a reader at time t can still get.
LiveKeys(c, t) == {e.key : e \in {x \in CacheEntries(c) : t < x.expires}}

\* TTLCache.__contains__: no reordering, no removal.
CacheContains(c, key, t) ==
  \E i \in 1..Len(c) : c[i].key = key /\ t < c[i].expires

\* TTLCache.expire(time)
CacheExpire(c, t) == SelectSeq(c, LAMBDA e : t < e.expires)

Without(c, key) == SelectSeq(c, LAMBDA e : e.key # key)

\* A read that renews the entry's lifetime (a sliding expiry).
CacheGetItemSliding(c, key, t) ==
  IF ~CacheHas(c, key)
  THEN [raised |-> TRUE, value |-> NoResult, cache |-> c]
  ELSE LET e == EntryOf(c, key)
       IN  IF ~(t < e.expires)
           THEN [raised |-> TRUE, value |-> NoResult,
                 cache |-> Append(Without(c, key), e)]
           ELSE [raised |-> FALSE, value |-> e.value,
                 cache |-> Append(Without(c, key),
                                  [e EXCEPT !.expires = t + ttl])]

\* A read that returns an entry half written: the answer without its
\* confidence.
CacheGetItemTorn(c, key, t) ==
  IF ~CacheHas(c, key)
  THEN [raised |-> TRUE, value |-> NoResult, cache |-> c]
  ELSE LET e == EntryOf(c, key)
           moved == Append(Without(c, key), e)
       IN  IF ~(t < e.expires)
           THEN [raised |-> TRUE, value |-> NoResult, cache |-> moved]
           ELSE [raised |-> FALSE,
                 value |-> [e.value EXCEPT !.confidence = -1],
                 cache |-> moved]

\* TTLCache.__getitem__: the key moves to the end of the key table; a
\* missing or expired key is __missing__, which raises KeyError.
CacheGetItem(c, key, t) ==
  IF ~CacheHas(c, key)
  THEN [raised |-> TRUE, value |-> NoResult, cache |-> c]
  ELSE LET e == EntryOf(c, key)
           moved == Append(Without(c, key), e)
       IN  IF ~(t < e.expires)
           THEN [raised |-> TRUE, value |-> NoResult, cache |-> moved]
           ELSE [raised |-> FALSE, value |-> e.value, cache |-> moved]

\* An eviction that drops the two oldest keys.
CachePopItemTwo(c, t) ==
  LET live == CacheExpire(c, t)
  IN  IF Len(live) <= 2 THEN <<>> ELSE Tail(Tail(live))

\* TTLCache.popitem: expire, then drop the first key of the key table.
CachePopItem(c, t) ==
  LET live == CacheExpire(c, t)
  IN  IF live = <<>> THEN live ELSE Tail(live)

\* Cache.__setitem__'s loop: while currsize + 1 > maxsize: popitem().
RECURSIVE MakeRoom(_, _)
MakeRoom(c, t) ==
  IF Len(c) + 1 > maxsize THEN MakeRoom(CachePopItem(c, t), t) ELSE c

\* A store that never evicts.
CacheSetItemUnbounded(c, key, value, t) ==
  Append(Without(CacheExpire(c, t), key),
         [key |-> key, value |-> value, expires |-> t + ttl])

\* TTLCache.__setitem__: expire, make room for a new key, store, and move
\* the key to the end with expires = time + ttl.
CacheSetItem(c, key, value, t) ==
  LET live == CacheExpire(c, t)
      room == IF CacheHas(live, key) THEN live ELSE MakeRoom(live, t)
  IN  Append(Without(room, key),
             [key |-> key, value |-> value, expires |-> t + ttl])

(***************************************************************************)
(* Answer.model_validate_json: a JSON object whose answer is a string and  *)
(* whose confidence is a number, a boolean, or a string that reads as a    *)
(* number (the validation is lax).  The schema states no range.            *)
(*                                                                         *)
(* A number read from a string is given in hundredths like the others,     *)
(* rounded away from zero, so that it lies in 0..100 exactly when the      *)
(* number lies in [0,1]; a magnitude the integers of the model cannot hold *)
(* is Huge, as is an infinity, and a value below the smallest float is 0.  *)
(***************************************************************************)
Huge == 1000000000

\* Not a number: below every number, and so in no range.
NaN == 0 - 2 * Huge

\* The code points Rust's str::trim removes (White_Space).
TrimSpace ==
  {9, 10, 11, 12, 13, 32, 133, 160, 5760}
    \cup 8192..8202 \cup {8232, 8233, 8239, 8287, 12288}

TrimStart[s \in Seq(Int)] ==
  IF s # <<>> /\ Head(s) \in TrimSpace THEN TrimStart[Tail(s)] ELSE s

TrimEnd[s \in Seq(Int)] ==
  IF s # <<>> /\ s[Len(s)] \in TrimSpace
  THEN TrimEnd[SubSeq(s, 1, Len(s) - 1)]
  ELSE s

Trim(s) == TrimEnd[TrimStart[s]]

\* What reading a text as a number gives: whether it is one, and which.
Reading == [ok : BOOLEAN, n : Int]

DigitsOnly[s \in Seq(Int)] == \A i \in 1..Len(s) : s[i] \in 48..57

\* Where the first code point of s that is in set stands; 0 when none is.
FirstOf[s \in Seq(Int), set \in SUBSET Int] ==
  IF \E i \in 1..Len(s) : s[i] \in set
  THEN CHOOSE i \in 1..Len(s) :
         s[i] \in set /\ \A j \in 1..(i - 1) : s[j] \notin set
  ELSE 0

\* The decimal digits d without their leading zeros.
Significant[d \in Seq(Int)] ==
  IF FirstOf[d, 49..57] = 0 THEN <<>>
  ELSE SubSeq(d, FirstOf[d, 49..57], Len(d))

\* The number the decimal digits d spell; at most nine of them.
DigitsValue[d \in Seq(Int)] ==
  IF d = <<>> THEN 0
  ELSE 10 * DigitsValue[SubSeq(d, 1, Len(d) - 1)] + (d[Len(d)] - 48)

\* The exponent so far, acc, with the digits of d from the i-th on: a digit
\* counts as long as the exponent so far is below 65536.
ExponentFrom[d \in Seq(Int), i \in Nat, acc \in Nat] ==
  IF i > Len(d) THEN acc
  ELSE ExponentFrom[d, i + 1,
                    IF acc < 65536 THEN 10 * acc + (d[i] - 48) ELSE acc]

\* The exponent the digits d spell.  Six significant digits reach 65536,
\* so that no digit after them counts.
Exponent[d \in Seq(Int)] ==
  ExponentFrom[SubSeq(Significant[d], 1,
                      IF Len(Significant[d]) > 6 THEN 6
                      ELSE Len(Significant[d])),
               1, 0]

\* The i-th decimal digit of d; 0 where d has none.
Digit(d, i) == IF i >= 1 /\ i <= Len(d) THEN d[i] - 48 ELSE 0

\* 2^52 and 2^53 in decimal digits: the significand of a float is at least
\* the one and less than the other.
TwoTo52 == <<52, 53, 48, 51, 53, 57, 57, 54, 50, 55, 51, 55, 48, 52, 57, 54>>

TwoTo53 == <<57, 48, 48, 55, 49, 57, 57, 50, 53, 52, 55, 52, 48, 57, 57, 50>>

\* The digits of 2^-1075, half the smallest float above zero, which is
\* 0.(these digits) * 10^-323.
HalfOfSmallest ==
  <<50, 52, 55, 48, 51, 50, 56, 50, 50, 57, 50, 48, 54, 50, 51, 50, 55, 50,
    48, 56, 56, 50, 56, 52, 51, 57, 54, 52, 51, 52, 49, 49, 48, 54, 56, 54,
    49, 56, 50, 53, 50, 57, 57, 48, 49, 51, 48, 55, 49, 54, 50, 51, 56, 50,
    50, 49, 50, 55, 57, 50, 56, 52, 49, 50, 53, 48, 51, 51, 55, 55, 53, 51,
    54, 51, 53, 49, 48, 52, 51, 55, 53, 57, 51, 50, 54, 52, 57, 57, 49, 56,
    49, 56, 48, 56, 49, 55, 57, 57, 54, 49, 56, 57, 56, 57, 56, 50, 56, 50,
    51, 52, 55, 55, 50, 50, 56, 53, 56, 56, 54, 53, 52, 54, 51, 51, 50, 56,
    51, 53, 53, 49, 55, 55, 57, 54, 57, 56, 57, 56, 49, 57, 57, 51, 56, 55,
    51, 57, 56, 48, 48, 53, 51, 57, 48, 57, 51, 57, 48, 54, 51, 49, 53, 48,
    51, 53, 54, 53, 57, 53, 49, 53, 53, 55, 48, 50, 50, 54, 51, 57, 50, 50,
    57, 48, 56, 53, 56, 51, 57, 50, 52, 52, 57, 49, 48, 53, 49, 56, 52, 52,
    51, 53, 57, 51, 49, 56, 48, 50, 56, 52, 57, 57, 51, 54, 53, 51, 54, 49,
    53, 50, 53, 48, 48, 51, 49, 57, 51, 55, 48, 52, 53, 55, 54, 55, 56, 50,
    52, 57, 50, 49, 57, 51, 54, 53, 54, 50, 51, 54, 54, 57, 56, 54, 51, 54,
    53, 56, 52, 56, 48, 55, 53, 55, 48, 48, 49, 53, 56, 53, 55, 54, 57, 50,
    54, 57, 57, 48, 51, 55, 48, 54, 51, 49, 49, 57, 50, 56, 50, 55, 57, 53,
    53, 56, 53, 53, 49, 51, 51, 50, 57, 50, 55, 56, 51, 52, 51, 51, 56, 52,
    48, 57, 51, 53, 49, 57, 55, 56, 48, 49, 53, 53, 51, 49, 50, 52, 54, 53,
    57, 55, 50, 54, 51, 53, 55, 57, 53, 55, 52, 54, 50, 50, 55, 54, 54, 52,
    54, 53, 50, 55, 50, 56, 50, 55, 50, 50, 48, 48, 53, 54, 51, 55, 52, 48,
    48, 54, 52, 56, 53, 52, 57, 57, 57, 55, 55, 48, 57, 54, 53, 57, 57, 52,
    55, 48, 52, 53, 52, 48, 50, 48, 56, 50, 56, 49, 54, 54, 50, 50, 54, 50,
    51, 55, 56, 53, 55, 51, 57, 51, 52, 53, 48, 55, 51, 54, 51, 51, 57, 48,
    48, 55, 57, 54, 55, 55, 54, 49, 57, 51, 48, 53, 55, 55, 53, 48, 54, 55,
    52, 48, 49, 55, 54, 51, 50, 52, 54, 55, 51, 54, 48, 48, 57, 54, 56, 57,
    53, 49, 51, 52, 48, 53, 51, 53, 53, 51, 55, 52, 53, 56, 53, 49, 54, 54,
    54, 49, 49, 51, 52, 50, 50, 51, 55, 54, 54, 54, 55, 56, 54, 48, 52, 49,
    54, 50, 49, 53, 57, 54, 56, 48, 52, 54, 49, 57, 49, 52, 52, 54, 55, 50,
    57, 49, 56, 52, 48, 51, 48, 48, 53, 51, 48, 48, 53, 55, 53, 51, 48, 56,
    52, 57, 48, 52, 56, 55, 54, 53, 51, 57, 49, 55, 49, 49, 51, 56, 54, 53,
    57, 49, 54, 52, 54, 50, 51, 57, 53, 50, 52, 57, 49, 50, 54, 50, 51, 54,
    53, 51, 56, 56, 49, 56, 55, 57, 54, 51, 54, 50, 51, 57, 51, 55, 51, 50,
    56, 48, 52, 50, 51, 56, 57, 49, 48, 49, 56, 54, 55, 50, 51, 52, 56, 52,
    57, 55, 54, 54, 56, 50, 51, 53, 48, 56, 57, 56, 54, 51, 51, 56, 56, 53,
    56, 55, 57, 50, 53, 54, 50, 56, 51, 48, 50, 55, 53, 53, 57, 57, 53, 54,
    53, 55, 53, 50, 52, 52, 53, 53, 53, 48, 55, 50, 53, 53, 49, 56, 57, 51,
    49, 51, 54, 57, 48, 56, 51, 54, 50, 53, 52, 55, 55, 57, 49, 56, 54, 57,
    52, 56, 54, 54, 55, 57, 57, 52, 57, 54, 56, 51, 50, 52, 48, 52, 57, 55,
    48, 53, 56, 50, 49, 48, 50, 56, 53, 49, 51, 49, 56, 53, 52, 53, 49, 51,
    57, 54, 50, 49, 51, 56, 51, 55, 55, 50, 50, 56, 50, 54, 49, 52, 53, 52,
    51, 55, 54, 57, 51, 52, 49, 50, 53, 51, 50, 48, 57, 56, 53, 57, 49, 51,
    50, 55, 54, 54, 55, 50, 51, 54, 51, 50, 56, 49, 50, 53>>

\* The number of digits a is less than that of digits b; neither has a
\* leading zero.
Less[a \in Seq(Int), b \in Seq(Int)] ==
  \/ Len(a) < Len(b)
  \/ /\ Len(a) = Len(b)
     /\ \E i \in 1..Len(a) :
          a[i] < b[i] /\ \A j \in 1..(i - 1) : a[j] = b[j]

\* The digits of twice the number of digits d, of which carry are new.
Doubled[d \in Seq(Int), carry \in 0..1] ==
  [i \in 1..(Len(d) + carry) |->
     48 + ((2 * Digit(d, i - carry)
              + (IF Digit(d, i - carry + 1) >= 5 THEN 1 ELSE 0)) % 10)]

Twice[d \in Seq(Int)] == Doubled[d, IF Digit(d, 1) >= 5 THEN 1 ELSE 0]

\* The digits of the number of digits d plus one, the t-th of d being its
\* last that is not a 9 (0 when all are).
SuccAt[d \in Seq(Int), t \in Nat] ==
  IF t = 0 THEN <<49>> \o [i \in 1..Len(d) |-> 48]
  ELSE [i \in 1..Len(d) |->
          IF i < t THEN d[i] ELSE IF i = t THEN d[i] + 1 ELSE 48]

Succ[d \in Seq(Int)] ==
  SuccAt[d, IF \A i \in 1..Len(d) : d[i] = 57 THEN 0
            ELSE CHOOSE i \in 1..Len(d) :
                   d[i] # 57 /\ \A j \in (i + 1)..Len(d) : d[j] = 57]

\* The number d / 10^L without its fraction.
Whole[d \in Seq(Int), L \in Nat] ==
  IF Len(d) > L THEN SubSeq(d, 1, Len(d) - L) ELSE <<>>

\* The fraction of d / 10^L rounds up: it is more than a half, or a half
\* next to an odd number.
RoundsUp[d \in Seq(Int), L \in Nat] ==
  \/ Digit(d, Len(d) - L + 1) > 5
  \/ /\ Digit(d, Len(d) - L + 1) = 5
     /\ \/ \E j \in (Len(d) - L + 2)..Len(d) : j >= 1 /\ d[j] # 48
        \/ Digit(d, Len(d) - L) % 2 = 1

\* The significand m of a float and its scale s; 2^53 is 2^52 a scale up.
Canonical[m \in Seq(Int), s \in Int] ==
  IF m = TwoTo53 THEN <<TwoTo52, s - 1>> ELSE <<m, s>>

\* The float nearest to d / (10^L * 2^s), a positive number below 2^53
\* and no subnormal: its significand and its scale, the float being
\* significand / 2^scale.  The number is doubled until it is 2^52 at least,
\* and then rounded to the nearest whole number, to the even one of two.
Nearest[d \in Seq(Int), L \in Nat, s \in Int] ==
  IF Less[Whole[d, L], TwoTo52] THEN Nearest[Twice[d], L, s + 1]
  ELSE IF RoundsUp[d, L] THEN Canonical[Succ[Whole[d, L]], s]
  ELSE Canonical[Whole[d, L], s]

\* The number 0.(sig) * 10^p, p + 2 <= 0, reads as the float 0: it is at
\* most half the smallest float above zero.
RoundsToZero[sig \in Seq(Int), p \in Int] ==
  \/ p < -323
  \/ /\ p = -323
     /\ ~ \E i \in 1..Len(sig) :
            /\ Digit(sig, i) > Digit(HalfOfSmallest, i)
            /\ \A j \in 1..(i - 1) : Digit(sig, j) = Digit(HalfOfSmallest, j)

\* The digits sig with those after the first n replaced by zeros.
Floor[sig \in Seq(Int), n \in Nat] ==
  [i \in 1..Len(sig) |-> IF i <= n THEN sig[i] ELSE 48]

\* The first n digits of sig, zeros where it has fewer.
Padded[sig \in Seq(Int), n \in Nat] ==
  [i \in 1..n |-> IF i <= Len(sig) THEN sig[i] ELSE 48]

\* The hundredths of the float the number 0.(sig) * 10^p reads as, sig
\* being its significant digits: the float is the nearest one, and what it
\* has beyond its hundredths makes one hundredth more.  There is nothing
\* beyond them when the number has nothing, or is so little more than its
\* hundredths that it reads as the same float as they do.
Scaled[sig \in Seq(Int), p \in Int] ==
  IF sig = <<>> THEN 0
  ELSE IF p + 2 > 9 THEN Huge
  ELSE IF p + 2 <= 0 THEN IF RoundsToZero[sig, p] THEN 0 ELSE 1
  ELSE IF \A i \in (p + 3)..Len(sig) : sig[i] = 48
  THEN DigitsValue[Padded[sig, p + 2]]
  ELSE IF Nearest[sig, Len(sig) - p, 0]
            = Nearest[Floor[sig, p + 2], Len(sig) - p, 0]
  THEN DigitsValue[Padded[sig, p + 2]]
  ELSE DigitsValue[Padded[sig, p + 2]] + 1

\* The hundredths of the number whose digits are d, with the decimal point
\* after the first pnt of them.
Hundredths[d \in Seq(Int), pnt \in Int] ==
  Scaled[Significant[d], pnt - (Len(d) - Len(Significant[d]))]

\* The mantissa mant and the exponent expo of a number: digits with at most
\* one point among them and at least one digit; a sign, perhaps, and
\* digits.
Mantissa[mant \in Seq(Int), dot \in Nat, exponent \in Int] ==
  LET int == IF dot = 0 THEN mant ELSE SubSeq(mant, 1, dot - 1)
      frac == IF dot = 0 THEN <<>> ELSE SubSeq(mant, dot + 1, Len(mant))
  IN  IF DigitsOnly[int] /\ DigitsOnly[frac] /\ Len(int) + Len(frac) >= 1
      THEN [ok |-> TRUE, n |-> Hundredths[int \o frac, Len(int) + exponent]]
      ELSE [ok |-> FALSE, n |-> 0]

SignedExponent[expo \in Seq(Int)] ==
  IF expo # <<>> /\ expo[1] \in {43, 45}
  THEN [ok |-> Len(expo) > 1 /\ DigitsOnly[Tail(expo)],
        n |-> IF expo[1] = 45 THEN 0 - Exponent[Tail(expo)]
              ELSE Exponent[Tail(expo)]]
  ELSE [ok |-> expo # <<>> /\ DigitsOnly[expo], n |-> Exponent[expo]]

\* An unsigned number, its exponent after the e or E at position e (0 when
\* there is none).
Number[s \in Seq(Int), e \in Nat] ==
  IF e = 0 THEN Mantissa[s, FirstOf[s, {46}], 0]
  ELSE IF SignedExponent[SubSeq(s, e + 1, Len(s))].ok
  THEN Mantissa[SubSeq(s, 1, e - 1), FirstOf[SubSeq(s, 1, e - 1), {46}],
                SignedExponent[SubSeq(s, e + 1, Len(s))].n]
  ELSE [ok |-> FALSE, n |-> 0]

ParseNumber[s \in Seq(Int)] == Number[s, FirstOf[s, {69, 101}]]

AsciiLower[s \in Seq(Int)] ==
  [i \in 1..Len(s) |-> IF s[i] \in 65..90 THEN s[i] + 32 ELSE s[i]]

\* The number r, negated.
Negated[r \in Reading] == [ok |-> r.ok, n |-> 0 - r.n]

\* The text after the sign, of which word is the lower-case form: inf,
\* infinity or nan in any case, or a number.
Unsigned[body \in Seq(Int), word \in Seq(Int), negative \in BOOLEAN] ==
  IF word = <<110, 97, 110>> THEN [ok |-> TRUE, n |-> NaN]
  ELSE IF word \in {<<105, 110, 102>>,
                    <<105, 110, 102, 105, 110, 105, 116, 121>>}
  THEN [ok |-> TRUE, n |-> IF negative THEN 0 - Huge ELSE Huge]
  ELSE IF negative THEN Negated[ParseNumber[body]]
  ELSE ParseNumber[body]

\* Rust's f64::from_str: a sign, perhaps, and the rest.
ParseFloat[s \in Seq(Int)] ==
  IF s # <<>> /\ s[1] \in {43, 45}
  THEN Unsigned[Tail(s), AsciiLower[Tail(s)], s[1] = 45]
  ELSE Unsigned[s, AsciiLower[s], FALSE]

\* The text has underscores, none of them first, last or next to another.
HasUnderscores[s \in Seq(Int)] ==
  /\ \E i \in 1..Len(s) : s[i] = 95
  /\ s[1] # 95 /\ s[Len(s)] # 95
  /\ \A i \in 1..(Len(s) - 1) : ~(s[i] = 95 /\ s[i + 1] = 95)

\* pydantic's reading of a string as a float: the trimmed text as Rust
\* reads it, else the text without its underscores.
\* The reading of the trimmed text, else that of s without underscores.
OrWithoutUnderscores[trimmed \in Reading, s \in Seq(Int)] ==
  IF trimmed.ok THEN trimmed
  ELSE IF HasUnderscores[s]
  THEN ParseFloat[SelectSeq(s, LAMBDA c : c # 95)]
  ELSE [ok |-> FALSE, n |-> 0]

StrAsFloat[s \in Seq(Int)] == OrWithoutUnderscores[ParseFloat[Trim(s)], s]

\* The confidence c of a payload as the float field reads it.
Confidence(c) ==
  IF c.t = "num" THEN [ok |-> TRUE, n |-> c.n]
  ELSE IF c.t = "bool" THEN [ok |-> TRUE, n |-> IF c.b THEN 100 ELSE 0]
  ELSE IF c.t = "str" THEN StrAsFloat[c.s]
  ELSE [ok |-> FALSE, n |-> 0]

\* A parser that fills in what is missing instead of raising.
ValidateJsonLenient(p) ==
  [ok |-> TRUE,
   result |-> [answer |-> IF p.answer.t = "str" THEN p.answer.s ELSE <<>>,
               confidence |-> IF Confidence(p.confidence).ok
                              THEN Confidence(p.confidence).n
                              ELSE 0]]

\* The object whose answer is the string a and whose confidence reads as c.
Validated[a \in Seq(Int), c \in Reading] ==
  IF c.ok THEN [ok |-> TRUE, result |-> [answer |-> a, confidence |-> c.n]]
  ELSE [ok |-> FALSE, result |-> NoResult]

ValidateJson(p) ==
  IF p.json /\ p.answer.t = "str"
  THEN Validated[p.answer.s, Confidence(p.confidence)]
  ELSE [ok |-> FALSE, result |-> NoResult]

(***************************************************************************)
(* The user message of the completion call:                                *)
(*   f"""Context: {' '.join(context)}\n\n            Question: {question}""" *)
(***************************************************************************)
\* "Context: "
ContextLabel == <<67, 111, 110, 116, 101, 120, 116, 58, 32>>

\* "\n\n", the twelve spaces of the source line's indentation, "Question: "
QuestionLabel ==
  <<10, 10, 32, 32, 32, 32, 32, 32, 32, 32, 32, 32, 32, 32,
    81, 117, 101, 115, 116, 105, 111, 110, 58, 32>>

\* sep.join(parts)
RECURSIVE Join(_, _)
Join(sep, parts) ==
  IF parts = <<>> THEN <<>>
  ELSE IF Len(parts) = 1 THEN parts[1]
  ELSE parts[1] \o sep \o Join(sep, Tail(parts))

\* A user message that carries the best passage only.
UserPromptFirstPassage(question, context) ==
  ContextLabel \o Join(<<32>>, <<Head(context)>>) \o QuestionLabel
    \o question

UserPrompt(question, context) ==
  ContextLabel \o Join(<<32>>, context) \o QuestionLabel \o question

(***************************************************************************)
(* OpenAIService.answer_question(question, context), run at time t1 on     *)
(* cache c.  d1 is the time between the membership test and the read, llm  *)
(* what the completion call does, d2 how long it takes.                    *)
(***************************************************************************)
Outcome(out, res, c, hit, llmCalls, endAt, stored) ==
  [outcome |-> out, result |-> res, cache |-> c, hit |-> hit,
   llmCalls |-> llmCalls, endAt |-> endAt, stored |-> stored]

\* answer_question without its empty-context return: the completion call is
\* made whatever the context.
AnswerQuestionNoGuard(c, question, context, t1, d1, llm, d2) ==
  LET normalized_question == lower(question)
  IN  IF CacheContains(c, normalized_question, t1)
      THEN LET got == CacheGetItem(c, normalized_question, t1 + d1)
           IN  IF got.raised
               THEN Outcome("error", NoResult, got.cache, FALSE, 0,
                            t1 + d1, FALSE)
               ELSE Outcome("returned", got.value, got.cache, TRUE, 0,
                            t1 + d1, FALSE)
      ELSE IF llm.raised
      THEN Outcome("error", NoResult, c, FALSE, 1, t1 + d2, FALSE)
      ELSE LET parsed == ValidateJson(llm.payload)
           IN  IF ~parsed.ok
               THEN Outcome("error", NoResult, c, FALSE, 1, t1 + d2, FALSE)
               ELSE Outcome("returned", parsed.result,
                            CacheSetItem(c, normalized_question,
                                         parsed.result, t1 + d2),
                            FALSE, 1, t1 + d2, TRUE)

AnswerQuestion(c, question, context, t1, d1, llm, d2) ==
  LET normalized_question == lower(question)
  IN  IF CacheContains(c, normalized_question, t1)
      THEN LET got == CacheGetItem(c, normalized_question, t1 + d1)
           IN  IF got.raised
               THEN Outcome("error", NoResult, got.cache, FALSE, 0,
                            t1 + d1, FALSE)
               ELSE Outcome("returned", got.value, got.cache, TRUE, 0,
                            t1 + d1, FALSE)
      ELSE IF context = <<>>
      THEN Outcome("returned", Sentinel, c, FALSE, 0, t1, FALSE)
      ELSE IF llm.raised
      THEN Outcome("error", NoResult, c, FALSE, 1, t1 + d2, FALSE)
      ELSE LET parsed == ValidateJson(llm.payload)
           IN  IF ~parsed.ok
               THEN Outcome("error", NoResult, c, FALSE, 1, t1 + d2, FALSE)
               ELSE Outcome("returned", parsed.result,
                            CacheSetItem(c, normalized_question,
                                         parsed.result, t1 + d2),
                            FALSE, 1, t1 + d2, TRUE)

(***************************************************************************)
(* VectorStore.  The collection is the sequence of its points in the order *)
(* they were first written; a point is [id, vector, payload].              *)
(***************************************************************************)
\* "a", "b", and a no-break space (blank)
Documents == {<<97>>, <<98>>, <<160>>}

\* What the embedding provider returns for a text: a function of the text.
EmbeddingOf(text) == <<"text-embedding-ada-002", text>>

\* int(sha256(doc.encode('utf-8')).hexdigest(), 16) % (2**63), in decimal,
\* for the texts of the model.
PointId(doc) ==
  CASE doc = <<97>> -> "4143443073246841019"
    [] doc = <<98>> -> "5436951609841811613"
    [] doc = <<32, 97>> -> "7013140041107472962"
    [] doc = <<97, 32>> -> "1243744068837806539"
    [] doc = <<99>> -> "1833639743181221830"
    [] doc = <<100>> -> "220587360842479844"
    [] doc = <<101>> -> "4049716317371264490"
    [] doc = <<97, 32, 98>> -> "5397779169931980133"

PointStruct(doc) ==
  [id |-> PointId(doc), vector |-> EmbeddingOf(doc), payload |-> doc]

\* Writing one point: an insert that never looks for the id.
UpsertOneInsert(pts, p) == Append(pts, p)

\* Writing one point: the point of the same id is replaced, else it is added.
UpsertOne(pts, p) ==
  IF \E i \in 1..Len(pts) : pts[i].id = p.id
  THEN [i \in 1..Len(pts) |-> IF pts[i].id = p.id THEN p ELSE pts[i]]
  ELSE Append(pts, p)

\* qdrant_client.upsert(points=batch, wait=True)
RECURSIVE Upsert(_, _)
Upsert(pts, batch) ==
  IF batch = <<>> THEN pts
  ELSE Upsert(UpsertOne(pts, Head(batch)), Tail(batch))

IsBlank(doc) == strip(doc) = <<>>

\* The documents of a batch that are embedded: the non-blank ones, in order.
NonBlank(documents) == SelectSeq(documents, LAMBDA d : ~IsBlank(d))

\* add_documents writing every point as soon as it is embedded.
AddDocumentsEager(pts, documents, failAt, upsertOk) ==
  LET todo == NonBlank(documents)
      batch == [i \in 1..Len(todo) |-> PointStruct(todo[i])]
  IN  IF documents = <<>> \/ todo = <<>>
      THEN [outcome |-> "returned", points |-> pts, embedCalls |-> 0,
            upserts |-> 0, embedFailed |-> FALSE]
      ELSE IF failAt \in 1..Len(todo)
      THEN [outcome |-> "error",
            points |-> Upsert(pts, SubSeq(batch, 1, failAt - 1)),
            embedCalls |-> failAt, upserts |-> failAt - 1,
            embedFailed |-> TRUE]
      ELSE [outcome |-> "returned", points |-> Upsert(pts, batch),
            embedCalls |-> Len(todo), upserts |-> Len(todo),
            embedFailed |-> FALSE]

\* VectorStore.add_documents(documents).  failAt is the position, among the
\* embedding calls of this batch, of the one that raises (0: none does);
\* upsertOk is whether the index accepts the write.
AddDocuments(pts, documents, failAt, upsertOk) ==
  LET todo == NonBlank(documents)
      batch == [i \in 1..Len(todo) |-> PointStruct(todo[i])]
  IN  IF documents = <<>>
      THEN [outcome |-> "returned", points |-> pts, embedCalls |-> 0,
            upserts |-> 0, embedFailed |-> FALSE]
      ELSE IF failAt \in 1..Len(todo)
      THEN [outcome |-> "error", points |-> pts, embedCalls |-> failAt,
            upserts |-> 0, embedFailed |-> TRUE]
      ELSE IF todo = <<>>
      THEN [outcome |-> "returned", points |-> pts, embedCalls |-> 0,
            upserts |-> 0, embedFailed |-> FALSE]
      ELSE IF ~upsertOk
      THEN [outcome |-> "error", points |-> pts,
            embedCalls |-> Len(todo), upserts |-> 1, embedFailed |-> FALSE]
      ELSE [outcome |-> "returned", points |-> Upsert(pts, batch),
            embedCalls |-> Len(todo), upserts |-> 1, embedFailed |-> FALSE]

Min(a, b) == IF a < b THEN a ELSE b

\* The answers the index may give to a search with limit n: the payloads of
\* n of its points (all of them when it holds fewer), in the order of a
\* similarity the model does not compute.
SearchResults(pts, n) ==
  LET m == Min(n, Len(pts))
      picks == {f \in [1..m -> 1..Len(pts)] :
                  \A i, j \in 1..m : i # j => f[i] # f[j]}
  IN  {[i \in 1..m |-> pts[f[i]].payload] : f \in picks}

\* A search wrapper that tries the index a second time when it raises.
SimilaritySearchRetry(pts, embedOk, searchOk, hits) ==
  IF ~embedOk
  THEN [ok |-> FALSE, docs |-> <<>>, embedCalls |-> 1, searchCalls |-> 0]
  ELSE IF ~searchOk
  THEN [ok |-> FALSE, docs |-> <<>>, embedCalls |-> 1, searchCalls |-> 2]
  ELSE [ok |-> TRUE, docs |-> hits, embedCalls |-> 1, searchCalls |-> 1]

\* A search wrapper that swallows the failure and reports no passages.
SimilaritySearchSwallow(pts, embedOk, searchOk, hits) ==
  IF ~embedOk
  THEN [ok |-> TRUE, docs |-> <<>>, embedCalls |-> 1, searchCalls |-> 0]
  ELSE IF ~searchOk
  THEN [ok |-> TRUE, docs |-> <<>>, embedCalls |-> 1, searchCalls |-> 1]
  ELSE [ok |-> TRUE, docs |-> hits, embedCalls |-> 1, searchCalls |-> 1]

\* VectorStore.similarity_search(query, k=5): embed the query, search, and
\* return the payload texts; either call's exception is re-raised.
SimilaritySearch(pts, embedOk, searchOk, hits) ==
  IF ~embedOk
  THEN [ok |-> FALSE, docs |-> <<>>, embedCalls |-> 1, searchCalls |-> 0]
  ELSE IF ~searchOk
  THEN [ok |-> FALSE, docs |-> <<>>, embedCalls |-> 1, searchCalls |-> 1]
  ELSE [ok |-> TRUE, docs |-> hits, embedCalls |-> 1, searchCalls |-> 1]

(***************************************************************************)
(* VectorStore._ensure_collection_exists.  An error of the Qdrant client   *)
(* is the text of str(e).                                                  *)
(***************************************************************************)
\* "already exists"
AlreadyExists ==
  <<97, 108, 114, 101, 97, 100, 121, 32, 101, 120, 105, 115, 116, 115>>

\* "Collection documents already exists"
AlreadyExistsMessage ==
  <<67, 111, 108, 108, 101, 99, 116, 105, 111, 110, 32, 100, 111, 99, 117,
    109, 101, 110, 116, 115, 32, 97, 108, 114, 101, 97, 100, 121, 32, 101,
    120, 105, 115, 116, 115>>

\* "timed out"
TimedOutMessage ==
  <<116, 105, 109, 101, 100, 32, 111, 117, 116>>

\* needle in text
Contains(text, needle) ==
  \E i \in 1..(Len(text) - Len(needle) + 1) :
    SubSeq(text, i, i + Len(needle) - 1) = needle

\* qdrant_client.get_collection: raises when the collection is not there,
\* and when the call itself fails.
GetCollection(exists, ok) == [raised |-> ~ok \/ ~exists]

\* A create that replaces the collection it finds.
RecreateCollection(exists, pts, ok) ==
  IF ~ok
  THEN [raised |-> TRUE, message |-> TimedOutMessage, exists |-> exists,
        points |-> pts, created |-> FALSE]
  ELSE [raised |-> FALSE, message |-> <<>>, exists |-> TRUE,
        points |-> <<>>, created |-> TRUE]

\* qdrant_client.create_collection: creates the collection, empty, when it
\* is not there and refuses when it is.
CreateCollection(exists, pts, ok) ==
  IF ~ok
  THEN [raised |-> TRUE, message |-> TimedOutMessage, exists |-> exists,
        points |-> pts, created |-> FALSE]
  ELSE IF exists
  THEN [raised |-> TRUE, message |-> AlreadyExistsMessage,
        exists |-> TRUE, points |-> pts, created |-> FALSE]
  ELSE [raised |-> FALSE, message |-> <<>>, exists |-> TRUE,
        points |-> <<>>, created |-> TRUE]

(***************************************************************************)
(* load_georgian_history: split the file on blank lines, strip each        *)
(* section, drop the empty ones.                                           *)
(***************************************************************************)
\* file.read() of a file opened in text mode: the characters of the file,
\* each line end of it, "\r\n" or "\r" or "\n", as "\n".
read(file) ==
  LET kept == SelectSeq([i \in 1..Len(file) |-> i],
                        LAMBDA i : ~(/\ i > 1
                                     /\ file[i] = 10
                                     /\ file[i - 1] = 13))
  IN  [j \in 1..Len(kept) |->
         IF file[kept[j]] = 13 THEN 10 ELSE file[kept[j]]]

\* s.split('\n\n')
RECURSIVE Split(_)
Split(s) ==
  IF \E i \in 1..(Len(s) - 1) : s[i] = 10 /\ s[i + 1] = 10
  THEN LET i == CHOOSE x \in 1..(Len(s) - 1) :
                  /\ s[x] = 10 /\ s[x + 1] = 10
                  /\ \A y \in 1..(x - 1) : ~(s[y] = 10 /\ s[y + 1] = 10)
       IN  <<SubSeq(s, 1, i - 1)>> \o Split(SubSeq(s, i + 2, Len(s)))
  ELSE <<s>>

\* The sections of the file whose characters are file.
Sections(file) ==
  LET parts == Split(read(file))
      stripped == [i \in 1..Len(parts) |-> strip(parts[i])]
  IN  SelectSeq(stripped, LAMBDA x : x # <<>>)

\* The characters of the file: "a\n\nb", " a" and a no-break space then
\* "\n\n\n\na", "a\r\n\r\nb", "b\r", "b", ""
FileContents ==
  { <<97, 10, 10, 98>>,
    <<32, 97, 160, 10, 10, 10, 10, 97>>,
    <<97, 13, 10, 13, 10, 98>>,
    <<98, 13>>,
    <<98>>,
    <<>> }

(***************************************************************************)
(* State.                                                                  *)
(*   now             the clock                                             *)
(*   question_cache  OpenAIService.question_cache                          *)
(*   points          the Qdrant collection                                 *)
(*   calls, ticks    how many requests and idle periods there have been    *)
(*   last            what the last /ask or answer_question call was given  *)
(*                   and did, with the passages it got and the user        *)
(*                   message it sent                                       *)
(*   lastAdd         what the last ingestion was given and did, whether an *)
(*                   embedding call of it raised, and the collection it    *)
(*                   found                                                 *)
(*   memo            per key, the last result stored for it, when, for     *)
(*                   which question text, how often it has been read since *)
(*                   and whether it has been evicted                       *)
(*   collection_exists  whether Qdrant holds the collection                *)
(*   creations       how many create_collection calls have succeeded       *)
(*   initializer     per process, where its VectorStore() is in            *)
(*                   _ensure_collection_exists and what it saw             *)
(*   requests        per /ask request, where its handler is                *)
(***************************************************************************)
NoLlm == [raised |-> FALSE, payload |-> NonJson]

NoCall ==
  [op |-> "none", question |-> <<>>, contextEmpty |-> TRUE,
   context |-> <<>>, prompt |-> <<>>,
   retrieval |-> "none", llm |-> NoLlm,
   outcome |-> "none", result |-> NoResult, hit |-> FALSE,
   embedCalls |-> 0, searchCalls |-> 0, llmCalls |-> 0,
   lookupAt |-> -1, stored |-> FALSE]

NoAdd ==
  [op |-> "none", documents |-> <<>>, before |-> <<>>, outcome |-> "none",
   embedCalls |-> 0, upserts |-> 0, embedFailed |-> FALSE]

NoMemo ==
  [at |-> -1, result |-> NoResult, asked |-> <<>>, hits |-> 0,
   evicted |-> FALSE]

\* The processes that construct a VectorStore, and the /ask requests the
\* server is sent.
Initializers == 1..MaxInitializers

Requests == 1..MaxRequests

\* A VectorStore() that has not yet called get_collection, and one that has
\* returned from _ensure_collection_exists.
FreshInitializer == [pc |-> "start", absent |-> FALSE, error |-> <<>>]

DoneInitializer == [pc |-> "done", absent |-> FALSE, error |-> <<>>]

\* A request that has not been sent.
NoRequest ==
  [pc |-> "none", question |-> <<>>, docs |-> <<>>, lookupAt |-> -1]

\* The record of one run r of answer_question, begun at t1; prompt is the
\* user message of the completion call when the run makes it.
Observed(op, q, context, t1, llm, r, embedCalls, searchCalls) ==
  [op |-> op, question |-> q, contextEmpty |-> (context = <<>>),
   context |-> context,
   prompt |-> IF r.llmCalls = 1 THEN UserPrompt(q, context) ELSE <<>>,
   retrieval |-> IF op = "ask" THEN "ok" ELSE "none",
   llm |-> IF r.llmCalls = 1 THEN llm ELSE NoLlm,
   outcome |-> r.outcome, result |-> r.result, hit |-> r.hit,
   embedCalls |-> embedCalls, searchCalls |-> searchCalls,
   llmCalls |-> r.llmCalls, lookupAt |-> t1, stored |-> r.stored]

\* A store at time t took key out of cache c while it could still be read:
\* it was evicted.
Evicted(c, after, t, key) == CacheContains(c, key, t) /\ ~CacheHas(after, key)

Remember(m, q, c, r) ==
  [key \in DOMAIN m |->
     IF r.stored /\ key = lower(q)
     THEN [at |-> r.endAt, result |-> r.result, asked |-> q, hits |-> 0,
           evicted |-> FALSE]
     ELSE IF r.stored /\ Evicted(c, r.cache, r.endAt, key)
     THEN [m[key] EXCEPT !.evicted = TRUE]
     ELSE IF r.hit /\ key = lower(q)
     THEN [m[key] EXCEPT !.hits = @ + 1]
     ELSE m[key]]

\* The collection after no ingestion, and after the ingestion of "a".
Collections == {<<>>, Upsert(<<>>, <<PointStruct(<<97>>)>>)}

\* The module is initialised (main.py: vector_store = VectorStore()): the
\* collection exists, and no request has been sent.
Started ==
  /\ collection_exists = TRUE
  /\ creations = 0
  /\ initializer = [p \in Initializers |-> DoneInitializer]
  /\ requests = [r \in Requests |-> NoRequest]

\* Time passes between two requests.
Tick ==
  /\ ticks < MaxTicks
  /\ \E d \in IdleTimes : now' = now + d
  /\ ticks' = ticks + 1
  /\ UNCHANGED <<question_cache, points, calls, last, lastAdd, memo>>
  /\ UNCHANGED <<collection_exists, creations, initializer, requests>>

\* What a run of answer_question(q, context) begun at t1 can be given: the
\* gap before the read matters only after a successful membership test, the
\* completion call only when it is reached.
Gaps(c, q, t1) ==
  IF CacheContains(c, lower(q), t1) THEN GapTimes ELSE {0}

Completions(c, q, context, t1) ==
  IF CacheContains(c, lower(q), t1) \/ context = <<>>
  THEN {NoLlm}
  ELSE LlmOutcomes

\* A caller runs OpenAIService.answer_question(q, context), q one of the
\* questions qs.
AnswerQuestionOf(qs) ==
  /\ calls < MaxCalls
  /\ \E q \in qs, context \in {<<>>, <<<<97>>>>} :
     \E d1 \in Gaps(question_cache, q, now),
        llm \in Completions(question_cache, q, context, now),
        d2 \in CallTimes :
       LET r == AnswerQuestion(question_cache, q, context, now, d1, llm, d2)
       IN  /\ question_cache' = r.cache
           /\ now' = r.endAt
           /\ last' = Observed("answer", q, context, now, llm, r, 0, 0)
           /\ memo' = Remember(memo, q, question_cache, r)
  /\ calls' = calls + 1
  /\ UNCHANGED <<points, ticks, lastAdd>>
  /\ UNCHANGED <<collection_exists, creations, initializer, requests>>

AnswerQuestionCall == AnswerQuestionOf(Questions)

\* POST /ask: similarity_search, then answer_question; any exception
\* becomes an HTTP 500.
AskQuestion ==
  /\ calls < MaxCalls
  /\ \E q \in Questions, d0 \in CallTimes, embedOk \in BOOLEAN,
        searchOk \in BOOLEAN, hits \in SearchResults(points, k) :
       LET s == SimilaritySearch(points, embedOk, searchOk, hits)
       IN  IF ~s.ok
           THEN /\ now' = now + d0
                /\ last' = [NoCall EXCEPT !.op = "ask", !.question = q,
                              !.retrieval = IF embedOk THEN "search_failed"
                                            ELSE "embed_failed",
                              !.outcome = "error",
                              !.embedCalls = s.embedCalls,
                              !.searchCalls = s.searchCalls]
                /\ UNCHANGED <<question_cache, memo>>
           ELSE \E d1 \in Gaps(question_cache, q, now + d0),
                   llm \in Completions(question_cache, q, s.docs, now + d0),
                   d2 \in CallTimes :
                  LET r == AnswerQuestion(question_cache, q, s.docs,
                                          now + d0, d1, llm, d2)
                  IN  /\ question_cache' = r.cache
                      /\ now' = r.endAt
                      /\ last' = [Observed("ask", q, s.docs, now + d0, llm,
                                           r, s.embedCalls, s.searchCalls)
                                    EXCEPT !.retrieval =
                                       IF ~embedOk THEN "embed_failed"
                                       ELSE IF ~searchOk THEN "search_failed"
                                       ELSE "ok"]
                      /\ memo' = Remember(memo, q, question_cache, r)
  /\ calls' = calls + 1
  /\ UNCHANGED <<points, ticks, lastAdd>>
  /\ UNCHANGED <<collection_exists, creations, initializer, requests>>

(***************************************************************************)
(* The /ask pipeline, from a cold cache.                                   *)
(***************************************************************************)
Init ==
  /\ now = 0
  /\ question_cache = <<>>
  /\ points \in Collections
  /\ calls = 0
  /\ ticks = 0
  /\ last = NoCall
  /\ lastAdd = NoAdd
  /\ memo = [key \in Keys |-> NoMemo]
  /\ Started

Next ==
  \/ Tick
  \/ AskQuestion

Spec == Init /\ [][Next]_vars

(***************************************************************************)
(* answer_question on its own: any question, any context, a cold cache.    *)
(***************************************************************************)
InitAnswer ==
  /\ now = 0
  /\ question_cache = <<>>
  /\ points = <<>>
  /\ calls = 0
  /\ ticks = 0
  /\ last = NoCall
  /\ lastAdd = NoAdd
  /\ memo = [key \in Keys |-> NoMemo]
  /\ Started

NextAnswer ==
  \/ Tick
  \/ AnswerQuestionCall

SpecAnswer == InitAnswer /\ [][NextAnswer]_vars

(***************************************************************************)
(* answer_question for a question that ends in a sigma, asked in capitals  *)
(* and in small letters.                                                   *)
(***************************************************************************)
SigmaQuestions == {<<913, 931>>, <<945, 963>>}

AnswerSigmaQuestion == AnswerQuestionOf(SigmaQuestions)

InitSigma ==
  /\ now = 0
  /\ question_cache = <<>>
  /\ points = <<>>
  /\ calls = 0
  /\ ticks = 0
  /\ last = NoCall
  /\ lastAdd = NoAdd
  /\ memo = [key \in {lower(q) : q \in SigmaQuestions} |-> NoMemo]
  /\ Started

NextSigma ==
  \/ Tick
  \/ AnswerSigmaQuestion

SpecSigma == InitSigma /\ [][NextSigma]_vars

(***************************************************************************)
(* answer_question on a full cache: maxsize other questions were answered, *)
(* one a second, before the first request of the model, and the requests   *)
(* of the model follow at once, while every one of those entries can still *)
(* be read.  (After an idle period of the model all but one of them have   *)
(* expired, and the cache is not full again within MaxCalls.)              *)
(***************************************************************************)
RECURSIVE Digits(_)
Digits(n) ==
  IF n < 10 THEN <<48 + n>> ELSE Append(Digits(n \div 10), 48 + (n % 10))

\* The question "1", "2", ...: its own lower-case form.
FillerKey(i) == Digits(i)

FullCache ==
  [i \in 1..maxsize |->
     [key |-> FillerKey(i),
      value |-> [answer |-> AnAnswer, confidence |-> 95],
      expires |-> i + ttl]]

InitFull ==
  /\ now = maxsize
  /\ question_cache = FullCache
  /\ points = <<>>
  /\ calls = 0
  /\ ticks = 0
  /\ last = NoCall
  /\ lastAdd = NoAdd
  /\ memo = [key \in Keys |-> NoMemo]
  /\ Started

NextFull == AnswerQuestionCall

SpecFull == InitFull /\ [][NextFull]_vars

(***************************************************************************)
(* The ingestion side.                                                     *)
(***************************************************************************)
MaxBatch == 2

Batches == UNION {[1..n -> Documents] : n \in 0..MaxBatch}

\* A caller runs VectorStore.add_documents(documents).
AddDocumentsCall ==
  /\ calls < MaxCalls
  /\ \E documents \in Batches, failAt \in 0..MaxBatch, upsertOk \in BOOLEAN :
       LET r == AddDocuments(points, documents, failAt, upsertOk)
       IN  /\ points' = r.points
           /\ lastAdd' = [op |-> "add", documents |-> documents,
                          before |-> points, outcome |-> r.outcome,
                          embedCalls |-> r.embedCalls, upserts |-> r.upserts,
                          embedFailed |-> r.embedFailed]
  /\ calls' = calls + 1
  /\ UNCHANGED <<now, question_cache, ticks, last, memo>>
  /\ UNCHANGED <<collection_exists, creations, initializer, requests>>

\* POST /generate-embeddings: load the file, add its sections.
GenerateEmbeddings ==
  /\ calls < MaxCalls
  /\ \E fileOk \in BOOLEAN, file \in FileContents, failAt \in 0..MaxBatch,
        upsertOk \in BOOLEAN :
       IF ~fileOk
       THEN /\ lastAdd' = [NoAdd EXCEPT !.op = "generate",
                             !.before = points, !.outcome = "error"]
            /\ UNCHANGED points
       ELSE LET sections == Sections(file)
                r == AddDocuments(points, sections, failAt, upsertOk)
            IN  /\ points' = r.points
                /\ lastAdd' = [op |-> "generate", documents |-> sections,
                               before |-> points, outcome |-> r.outcome,
                               embedCalls |-> r.embedCalls,
                               upserts |-> r.upserts,
                               embedFailed |-> r.embedFailed]
  /\ calls' = calls + 1
  /\ UNCHANGED <<now, question_cache, ticks, last, memo>>
  /\ UNCHANGED <<collection_exists, creations, initializer, requests>>

NextIngest ==
  \/ AddDocumentsCall
  \/ GenerateEmbeddings

SpecIngest == InitAnswer /\ [][NextIngest]_vars

(***************************************************************************)
(* The first /ask request on a collection that holds no point, fewer       *)
(* points than the search limit, or more.                                  *)
(***************************************************************************)
\* "a", "a b", "b", "c", "d", "e"
Passages == <<<<97>>, <<97, 32, 98>>, <<98>>, <<99>>, <<100>>, <<101>>>>

PromptCollections ==
  {Upsert(<<>>, [i \in 1..n |-> PointStruct(Passages[i])]) : n \in {0, 2, k + 1}}

InitPrompt ==
  /\ now = 0
  /\ question_cache = <<>>
  /\ points \in PromptCollections
  /\ calls = 0
  /\ ticks = 0
  /\ last = NoCall
  /\ lastAdd = NoAdd
  /\ memo = [key \in Keys |-> NoMemo]
  /\ Started

FirstAsk == calls = 0 /\ AskQuestion

NextPrompt == FirstAsk

SpecPrompt == InitPrompt /\ [][NextPrompt]_vars

(***************************************************************************)
(* The server under concurrent /ask requests.  ask_question is an          *)
(* `async def` handler, so it runs on the event loop's one thread; its     *)
(* outbound calls (openai.Embedding.create, qdrant_client.search,          *)
(* openai.ChatCompletion.create) are synchronous calls, and neither it nor *)
(* answer_question awaits anything that suspends.  A handler that has      *)
(* begun therefore keeps the thread until it returns or raises.  Each      *)
(* outbound call is one step, taken when the call returns or raises.       *)
(***************************************************************************)
\* The handler of request r is on the event loop's thread.
Running(r) == requests[r].pc \in {"embedding", "searching", "completing"}

\* The event loop's thread is free to run a handler.
LoopFree == \A r \in Requests : ~Running(r)

\* A client sends POST /ask; the request waits for the event loop.
Arrive(r) ==
  /\ requests[r].pc = "none"
  /\ \E q \in Questions :
       requests' = [requests EXCEPT ![r] =
                      [NoRequest EXCEPT !.pc = "pending", !.question = q]]
  /\ UNCHANGED <<now, question_cache, points, calls, ticks, last, lastAdd,
                 memo, collection_exists, creations, initializer>>

\* The event loop runs the handler of r, which calls
\* openai.Embedding.create for the question and waits for it.
Begin(r) ==
  /\ requests[r].pc = "pending"
  /\ LoopFree
  /\ requests' = [requests EXCEPT ![r].pc = "embedding"]
  /\ UNCHANGED <<now, question_cache, points, calls, ticks, last, lastAdd,
                 memo, collection_exists, creations, initializer>>

\* The handler of r is over: the response is sent.
Respond(r, record, cache, m, t) ==
  /\ requests' = [requests EXCEPT ![r].pc = "done"]
  /\ last' = record
  /\ question_cache' = cache
  /\ memo' = m
  /\ now' = t
  /\ calls' = calls + 1
  /\ UNCHANGED <<points, ticks, lastAdd, collection_exists, creations,
                 initializer>>

\* The embedding call of r returns or raises; when it returns, the handler
\* calls qdrant_client.search and waits for it.
EmbeddingReturns(r) ==
  /\ requests[r].pc = "embedding"
  /\ \E embedOk \in BOOLEAN :
       IF embedOk
       THEN /\ requests' = [requests EXCEPT ![r].pc = "searching"]
            /\ UNCHANGED <<now, question_cache, points, calls, ticks, last,
                           lastAdd, memo, collection_exists, creations,
                           initializer>>
       ELSE LET s == SimilaritySearch(points, FALSE, TRUE, <<>>)
            IN  Respond(r, [NoCall EXCEPT !.op = "ask",
                              !.question = requests[r].question,
                              !.retrieval = "embed_failed",
                              !.outcome = "error",
                              !.embedCalls = s.embedCalls,
                              !.searchCalls = s.searchCalls],
                        question_cache, memo, now)

\* The index search of r returns or raises; when it returns, the handler
\* runs answer_question up to its return or to its completion call.
SearchReturns(r) ==
  /\ requests[r].pc = "searching"
  /\ \E d0 \in CallTimes, searchOk \in BOOLEAN,
        hits \in SearchResults(points, k) :
       LET q == requests[r].question
           s == SimilaritySearch(points, TRUE, searchOk, hits)
           t == now + d0
       IN  IF ~s.ok
           THEN Respond(r, [NoCall EXCEPT !.op = "ask", !.question = q,
                              !.retrieval = "search_failed",
                              !.outcome = "error",
                              !.embedCalls = s.embedCalls,
                              !.searchCalls = s.searchCalls],
                        question_cache, memo, t)
           ELSE IF Completions(question_cache, q, s.docs, t) = {NoLlm}
           THEN \E d1 \in Gaps(question_cache, q, t) :
                  LET a == AnswerQuestion(question_cache, q, s.docs, t, d1,
                                          NoLlm, 0)
                  IN  Respond(r, Observed("ask", q, s.docs, t, NoLlm, a,
                                          s.embedCalls, s.searchCalls),
                              a.cache, Remember(memo, q, question_cache, a),
                              a.endAt)
           ELSE /\ requests' = [requests EXCEPT ![r].pc = "completing",
                                                ![r].docs = s.docs,
                                                ![r].lookupAt = t]
                /\ now' = t
                /\ UNCHANGED <<question_cache, points, calls, ticks, last,
                               lastAdd, memo, collection_exists, creations,
                               initializer>>

\* The completion call of r returns or raises; answer_question parses and
\* stores the result, or raises.
CompletionReturns(r) ==
  /\ requests[r].pc = "completing"
  /\ \E llm \in LlmOutcomes, d2 \in CallTimes :
       LET q == requests[r].question
           docs == requests[r].docs
           a == AnswerQuestion(question_cache, q, docs,
                               requests[r].lookupAt, 0, llm, d2)
       IN  Respond(r, Observed("ask", q, docs, requests[r].lookupAt, llm, a,
                               1, 1),
                   a.cache, Remember(memo, q, question_cache, a), a.endAt)

\* Time passes while no handler runs.
Idle ==
  /\ LoopFree
  /\ ticks < MaxTicks
  /\ \E d \in IdleTimes : now' = now + d
  /\ ticks' = ticks + 1
  /\ UNCHANGED <<question_cache, points, calls, last, lastAdd, memo,
                 collection_exists, creations, initializer, requests>>

NextLoop ==
  \/ Idle
  \/ \E r \in Requests :
       \/ Arrive(r)
       \/ Begin(r)
       \/ EmbeddingReturns(r)
       \/ SearchReturns(r)
       \/ CompletionReturns(r)

SpecLoop == Init /\ [][NextLoop]_vars

(***************************************************************************)
(* Start-up: several processes construct a VectorStore against one Qdrant, *)
(* which holds no collection, or the collection of an earlier run.  Each   *)
(* call to Qdrant is one step; the processes interleave between the calls. *)
(***************************************************************************)
\* _ensure_collection_exists, up to the return of get_collection: return
\* when it returns, go on to create_collection when it raises.
EnsureGetCollection(p) ==
  /\ initializer[p].pc = "start"
  /\ \E ok \in BOOLEAN :
       LET g == GetCollection(collection_exists, ok)
       IN  initializer' =
             [initializer EXCEPT ![p] =
                IF g.raised
                THEN [pc |-> "create", absent |-> ~collection_exists,
                      error |-> <<>>]
                ELSE [pc |-> "done", absent |-> FALSE, error |-> <<>>]]
  /\ UNCHANGED <<now, question_cache, points, calls, ticks, last, lastAdd,
                 memo, collection_exists, creations, requests>>

\* _ensure_collection_exists, from create_collection on: an exception
\* whose text holds "already exists" is a return, any other is raised.
EnsureCreateCollection(p) ==
  /\ initializer[p].pc = "create"
  /\ \E ok \in BOOLEAN :
       LET c == CreateCollection(collection_exists, points, ok)
       IN  /\ collection_exists' = c.exists
           /\ points' = c.points
           /\ creations' = IF c.created THEN creations + 1 ELSE creations
           /\ initializer' =
                [initializer EXCEPT ![p] =
                   [@ EXCEPT !.pc = IF c.raised
                                      /\ ~Contains(c.message, AlreadyExists)
                                    THEN "failed" ELSE "done",
                             !.error = c.message]]
  /\ UNCHANGED <<now, question_cache, calls, ticks, last, lastAdd, memo,
                 requests>>

InitEnsure ==
  /\ now = 0
  /\ question_cache = <<>>
  /\ \/ collection_exists = FALSE /\ points = <<>>
     \/ collection_exists = TRUE /\ points \in Collections
  /\ creations = 0
  /\ initializer = [p \in Initializers |-> FreshInitializer]
  /\ requests = [r \in Requests |-> NoRequest]
  /\ calls = 0
  /\ ticks = 0
  /\ last = NoCall
  /\ lastAdd = NoAdd
  /\ memo = [key \in Keys |-> NoMemo]

NextEnsure ==
  \E p \in Initializers :
    \/ EnsureGetCollection(p)
    \/ EnsureCreateCollection(p)

SpecEnsure == InitEnsure /\ [][NextEnsure]_vars

(***************************************************************************)
(* Properties.                                                             *)
(***************************************************************************)
\* A request ran in this step.
Called == calls' = calls + 1

\* Two texts that differ at most in letter case: code point by code point,
\* the small letter of one is the small letter of the other.
SameIgnoringCase(a, b) ==
  /\ Len(a) = Len(b)
  /\ \A i \in 1..Len(a) : LowerChar(a[i]) = LowerChar(b[i])

\* C1: whenever /ask is called for a question whose normalized text has an
\* unexpired cache entry, the cached result is returned and the call makes
\* no call to the embedding provider, the vector index or the language
\* model.
C1_CachedAskCallsNothing ==
  [][(/\ Called
      /\ last'.op = "ask"
      /\ CacheContains(question_cache, lower(last'.question), now))
     => (/\ last'.outcome = "returned"
         /\ last'.hit
         /\ last'.embedCalls = 0
         /\ last'.searchCalls = 0
         /\ last'.llmCalls = 0)]_vars

\* C2: a call of answer_question whose question differs at most in letter
\* case from the one a non-sentinel result was stored for, made within the
\* ttl of that store and with the entry not evicted, is a cache hit and
\* returns that result.
C2_CaseFoldedHit ==
  [][Called =>
       \A key \in DOMAIN memo :
         (/\ memo[key].at >= 0
          /\ ~memo[key].evicted
          /\ memo[key].result # Sentinel
          /\ SameIgnoringCase(memo[key].asked, last'.question)
          /\ last'.lookupAt >= 0
          /\ now' < memo[key].at + ttl)
         => (/\ last'.hit
             /\ last'.outcome = "returned"
             /\ last'.result = memo[key].result)]_vars

\* C3, as stated: answer_question called with an empty context returns the
\* sentinel and does not call the language model, whatever the cache holds.
C3_EmptyContextAlwaysSentinel ==
  (last.op = "answer" /\ last.contextEmpty)
    => (/\ last.outcome = "returned"
        /\ last.result = Sentinel
        /\ last.llmCalls = 0)

\* C3, amended: answer_question called with an empty context never calls
\* the language model.  It returns the sentinel whenever the question's
\* normalized text has no unexpired cache entry at the membership test.
\* When it has one, the cache read comes before the empty-context test: the
\* cached result is returned if the entry is still unexpired at the read,
\* and the read raises if the entry has expired since the test.
C3_EmptyContextOnMiss ==
  [][(Called /\ last'.op = "answer" /\ last'.contextEmpty)
     => (/\ last'.llmCalls = 0
         /\ ~CacheContains(question_cache, lower(last'.question),
                           last'.lookupAt)
              => (/\ last'.outcome = "returned"
                  /\ last'.result = Sentinel)
         /\ (/\ CacheContains(question_cache, lower(last'.question),
                              last'.lookupAt)
             /\ CacheContains(question_cache, lower(last'.question), now'))
              => (/\ last'.outcome = "returned"
                  /\ last'.hit
                  /\ last'.result
                       = EntryOf(question_cache,
                                 lower(last'.question)).value)
         /\ (/\ CacheContains(question_cache, lower(last'.question),
                              last'.lookupAt)
             /\ ~CacheContains(question_cache, lower(last'.question), now'))
              => (/\ last'.outcome = "error"
                  /\ ~last'.hit))]_vars

\* The sentinel returned from a cache that holds entries.
C3_Witness ==
  /\ last.op = "answer"
  /\ last.contextEmpty
  /\ ~last.hit
  /\ last.outcome = "returned"
  /\ last.result = Sentinel
  /\ question_cache # <<>>

\* C4: no cache entry ever holds the sentinel result.
C4_SentinelNeverCached ==
  \A i \in 1..Len(question_cache) : question_cache[i].value # Sentinel

\* C5: a lookup later than ttl after the last store for its key is a miss,
\* however many hits the entry had in between.
C5_ExpiryFromInsertion ==
  [][Called =>
       LET m == memo[lower(last'.question)]
       IN  (m.at >= 0 /\ last'.lookupAt > m.at + ttl) => ~last'.hit]_vars

\* A miss after the ttl on an entry that had been hit.
C5_Witness ==
  LET m == memo[lower(last.question)]
  IN  /\ last.op = "answer"
      /\ ~last.hit
      /\ ~last.stored
      /\ m.at >= 0
      /\ m.hits >= 1
      /\ last.lookupAt > m.at + ttl

\* C6: a store of a new key into a cache that holds maxsize entries a reader
\* can still get removes exactly one of them, keeps the cache at maxsize,
\* and keeps the entry just stored.
C6_EvictsExactlyOne ==
  [][(/\ Called
      /\ last'.stored
      /\ ~CacheContains(question_cache, lower(last'.question), now')
      /\ Len(CacheExpire(question_cache, now')) = maxsize)
     => (/\ Cardinality(LiveKeys(question_cache, now')
                          \ CacheKeys(question_cache')) = 1
         /\ Len(CacheExpire(question_cache', now')) = maxsize
         /\ CacheHas(question_cache', lower(last'.question))
         /\ EntryOf(question_cache', lower(last'.question)).value
              = last'.result)]_vars

\* A store into the full cache has evicted the oldest question.
C6_Witness ==
  /\ last.stored
  /\ Len(question_cache) = maxsize
  /\ now < 1 + ttl
  /\ ~CacheHas(question_cache, FillerKey(1))
  /\ CacheHas(question_cache, lower(last.question))

\* C7: every result returned or cached has a confidence within [0,1].
C7_ConfidenceInRange ==
  /\ last.outcome = "returned" => last.result.confidence \in 0..100
  /\ \A i \in 1..Len(question_cache) :
       question_cache[i].value.confidence \in 0..100

\* The completion call raised, or its payload is not JSON or lacks a field.
CompletionFailed(llm) ==
  \/ llm.raised
  \/ ~llm.payload.json
  \/ llm.payload.answer.t = "absent"
  \/ llm.payload.confidence.t = "absent"

\* C8: when the completion call fails or its output is not JSON or lacks a
\* required field, the request fails, returns no answer, and the cache is
\* as it was.
C8_FailedCompletionChangesNothing ==
  [][(Called /\ last'.llmCalls = 1 /\ CompletionFailed(last'.llm))
     => (/\ last'.outcome = "error"
         /\ last'.result = NoResult
         /\ ~last'.stored
         /\ question_cache' = question_cache)]_vars

\* A payload without its answer field failed a request on a cache that
\* holds an entry.
C8_Witness ==
  /\ last.op = "ask"
  /\ last.llmCalls = 1
  /\ ~last.llm.raised
  /\ last.llm.payload.json
  /\ last.llm.payload.answer.t = "absent"
  /\ last.outcome = "error"
  /\ question_cache # <<>>

\* C9: when the embedding call or the index search raises, /ask fails,
\* returns no answer, does not call the language model and leaves the cache
\* as it was.
C9_FailedRetrievalChangesNothing ==
  [][(Called /\ last'.retrieval \in {"embed_failed", "search_failed"})
     => (/\ last'.outcome = "error"
         /\ last'.result = NoResult
         /\ last'.llmCalls = 0
         /\ ~last'.stored
         /\ question_cache' = question_cache)]_vars

\* A failed index search, for a question the cache holds.
C9_Witness ==
  /\ last.op = "ask"
  /\ last.retrieval = "search_failed"
  /\ last.searchCalls = 1
  /\ last.outcome = "error"
  /\ CacheHas(question_cache, lower(last.question))

\* The points that hold text d.
Holding(pts, d) == {j \in 1..Len(pts) : pts[j].payload = d}

\* C10, as stated: after add_documents succeeded, the collection holds
\* exactly one record for every text of the batch.
C10_OneRecordPerText ==
  lastAdd.outcome = "returned"
    => \A i \in 1..Len(lastAdd.documents) :
         Cardinality(Holding(points, lastAdd.documents[i])) = 1

\* C10, amended: after add_documents succeeded, the collection holds exactly
\* one record, under the id derived from the text, for every non-blank text
\* of the batch and none for a blank one; and a batch whose non-blank texts
\* were all stored already leaves the collection as it was.
C10_IdempotentIngestion ==
  lastAdd.outcome = "returned"
    => /\ \A i \in 1..Len(lastAdd.documents) :
            LET d == lastAdd.documents[i]
            IN  IF IsBlank(d)
                THEN Holding(points, d) = {}
                ELSE /\ Cardinality(Holding(points, d)) = 1
                     /\ \A j \in Holding(points, d) :
                          points[j].id = PointId(d)
       /\ (\A i \in 1..Len(lastAdd.documents) :
             \/ IsBlank(lastAdd.documents[i])
             \/ Holding(lastAdd.before, lastAdd.documents[i]) # {})
            => points = lastAdd.before

\* A batch that holds a text twice, which the collection held already.
C10_Witness ==
  /\ lastAdd.outcome = "returned"
  /\ Len(lastAdd.documents) = 2
  /\ lastAdd.documents[1] = lastAdd.documents[2]
  /\ ~IsBlank(lastAdd.documents[1])
  /\ Holding(lastAdd.before, lastAdd.documents[1]) # {}
  /\ Len(points) = 2

\* C14: a single /ask request calls the embedding provider at most once,
\* searches the index at most once and calls the language model at most
\* once, whether it succeeds or fails.
C14_NoRetries ==
  /\ last.embedCalls <= 1
  /\ last.searchCalls <= 1
  /\ last.llmCalls <= 1

\* A request that failed at the completion call, after one call of each.
C14_Witness ==
  /\ last.op = "ask"
  /\ last.outcome = "error"
  /\ last.llm.raised
  /\ last.embedCalls = 1
  /\ last.searchCalls = 1
  /\ last.llmCalls = 1

\* C17: a call of answer_question that finds the question's normalized text
\* at the membership test never fails: it returns the cached value, or goes
\* on as a miss, also when the entry expires between the test and the read.
C17_LookupNeverFails ==
  [][(/\ Called
      /\ CacheContains(question_cache, lower(last'.question),
                       last'.lookupAt))
     => last'.outcome = "returned"]_vars

\* C18: when an embedding call of a batch raises, add_documents fails and
\* the collection is as it was before the batch; and the collection changes
\* only after every non-blank document of the batch has been embedded.
C18_BatchAllOrNothing ==
  /\ lastAdd.embedFailed
       => (lastAdd.outcome = "error" /\ points = lastAdd.before)
  /\ points # lastAdd.before
       => lastAdd.embedCalls = Len(NonBlank(lastAdd.documents))

\* The embedding of the second document of a batch raised, after the first
\* was embedded: nothing of the batch is in the collection.
C18_Witness ==
  /\ lastAdd.op = "add"
  /\ lastAdd.embedFailed
  /\ lastAdd.embedCalls = 2
  /\ Len(NonBlank(lastAdd.documents)) = 2
  /\ lastAdd.outcome = "error"
  /\ Holding(points, lastAdd.documents[1]) = {}

\* An entry of one of the questions answered before the first request of
\* the model: the one stored at second i expires at i + ttl.
IsFiller(e) ==
  LET i == e.expires - ttl
  IN  i \in 1..maxsize /\ FullCache[i] = e

\* C15: the cache never holds more than maxsize entries, and every key in it
\* is in lower case and belongs to a question for which a result was
\* composed and stored.
C15_CacheBoundedAndKeyed ==
  /\ Len(question_cache) <= maxsize
  /\ \A i \in 1..Len(question_cache) :
       LET key == question_cache[i].key
       IN  /\ lower(key) = key
           /\ \/ IsFiller(question_cache[i])
              \/ /\ key \in DOMAIN memo
                 /\ memo[key].at >= 0
                 /\ lower(memo[key].asked) = key
                 /\ question_cache[i].value = memo[key].result

\* Two new questions were stored into the full cache, one of them asked in
\* upper case, and the cache is at its capacity.
C15_Witness ==
  /\ Len(question_cache) = maxsize
  /\ \A key \in Keys : CacheHas(question_cache, key)
  /\ \E key \in Keys : memo[key].asked # key

\* Where passage i of context ctx begins in a text that holds the passages
\* from position o on, one separator between two of them.
RECURSIVE PassageStart(_, _, _)
PassageStart(ctx, o, i) ==
  IF i = 1 THEN o
  ELSE PassageStart(ctx, o, i - 1) + Len(ctx[i - 1]) + 1

\* C16: on a miss with a non-empty context the user message sent to the
\* language model holds every passage the search returned, at most k of
\* them, in the order returned, one separator between two passages, and
\* after them the question as it was asked.
C16_PromptHoldsPassages ==
  (last.op = "ask" /\ last.llmCalls = 1)
    => LET ctx == last.context
           p == last.prompt
           q == last.question
           n == Len(ctx)
       IN  /\ n \in 1..k
           /\ n = Min(k, Len(points))
           /\ \A i \in 1..n : Holding(points, ctx[i]) # {}
           /\ \E o \in 1..Len(p) :
                /\ \A i \in 1..n :
                     SubSeq(p, PassageStart(ctx, o, i),
                            PassageStart(ctx, o, i) + Len(ctx[i]) - 1)
                       = ctx[i]
                /\ \A i \in 1..(n - 1) :
                     p[PassageStart(ctx, o, i) + Len(ctx[i])] = 32
                /\ PassageStart(ctx, o, n) + Len(ctx[n])
                     <= Len(p) - Len(q) + 1
           /\ SubSeq(p, Len(p) - Len(q) + 1, Len(p)) = q

\* A question in upper case, asked of a collection that holds more points
\* than the limit: k passages, one of them with a space in it, were sent.
C16_Witness ==
  /\ last.op = "ask"
  /\ last.llmCalls = 1
  /\ Len(points) > k
  /\ Len(last.context) = k
  /\ last.context[2] = <<97, 32, 98>>
  /\ last.question # lower(last.question)
  /\ Len(last.prompt) > Len(ContextLabel) + Len(QuestionLabel)

\* C11: the collection is created at most once and, once it exists, no
\* invocation of _ensure_collection_exists creates it again or changes its
\* points; an invocation that has returned leaves a collection that exists;
\* and no invocation fails on an error that says the collection already
\* exists.
C11_EnsureIdempotent ==
  [][/\ creations' <= 1
     /\ collection_exists
          => (/\ collection_exists'
              /\ creations' = creations
              /\ points' = points)
     /\ \A p \in Initializers :
          /\ initializer'[p].pc = "done" => collection_exists'
          /\ initializer'[p].pc = "failed"
               => ~Contains(initializer'[p].error, AlreadyExists)]_vars

\* Two initializers both saw the collection absent; one created it, the
\* other was refused with "already exists" and returned all the same.
C11_Witness ==
  /\ creations = 1
  /\ collection_exists
  /\ \E p, q \in Initializers :
       /\ p # q
       /\ initializer[p].pc = "done" /\ initializer[q].pc = "done"
       /\ initializer[p].absent /\ initializer[q].absent
       /\ initializer[p].error = <<>>
       /\ initializer[q].error = AlreadyExistsMessage

\* C12: with any number of /ask requests sent at once, a request that is
\* answered from the cache gets the result last composed and stored for a
\* question with the same normalized text, whole; and a request fails only
\* on its own retrieval, its own completion, or the expiry of the entry
\* between its membership test and its read, never on what another request
\* did to the cache.
C12_SharedCacheSafe ==
  [][Called =>
       LET key == lower(last'.question)
           m == memo[key]
       IN  /\ last'.hit
                => (/\ m.at >= 0
                    /\ lower(m.asked) = lower(last'.question)
                    /\ last'.result = m.result
                    /\ \E llm \in LlmOutcomes :
                         /\ ~llm.raised
                         /\ ValidateJson(llm.payload).ok
                         /\ ValidateJson(llm.payload).result = last'.result)
           /\ last'.outcome = "error"
                => \/ last'.retrieval \in {"embed_failed", "search_failed"}
                   \/ /\ last'.llmCalls = 1
                      /\ \/ last'.llm.raised
                         \/ ~ValidateJson(last'.llm.payload).ok
                   \/ /\ m.at >= 0
                      /\ last'.lookupAt < m.at + ttl
                      /\ m.at + ttl <= now']_vars

\* Two requests for one question, in different case, were sent before the
\* handler of either began; the first composed and stored a result, the
\* second was answered from the cache.
C12_Witness ==
  /\ \A r \in Requests : requests[r].pc = "done"
  /\ \E r1, r2 \in Requests :
       /\ requests[r1].question # requests[r2].question
       /\ lower(requests[r1].question) = lower(requests[r2].question)
       /\ memo[lower(requests[r1].question)].asked = requests[r1].question
       /\ last.question = requests[r2].question
  /\ last.hit
  /\ last.outcome = "returned"
  /\ calls = MaxRequests
  /\ now < ttl

\* C13: while the handler of one request waits for its embedding call or
\* its completion call, the handler of a request for an unrelated question
\* that is waiting to start can start.
C13_NotSerialized ==
  \A r1, r2 \in Requests :
    (/\ requests[r1].pc \in {"embedding", "completing"}
     /\ requests[r2].pc = "pending"
     /\ lower(requests[r1].question) # lower(requests[r2].question))
      => ENABLED Begin(r2)

====
